---- MODULE Spec2Model ----
(***************************************************************************)
(* DocuSync: the folder reconciliation engine (app/sync.py), the catalog   *)
(* it reads and refreshes (app/file_scanner.py, app/database.py) and the   *)
(* HTTP handlers that drive it (app/main.py).                              *)
(*                                                                         *)
(* Modelling conventions                                                   *)
(*  - A path is a record [folder, dir, name]: folder 1 or 2 is the tree it *)
(*    lies under, dir the directory inside the tree (dir 1 is the tree's   *)
(*    root), name the basename.  Basenames and MD5 digests are naturals;   *)
(*    their order stands for Python's string order.  The two folders are   *)
(*    taken to be disjoint trees, neither a string prefix of the other.    *)
(*  - Python's None is a field "exists"/"has" set to FALSE.                *)
(*  - Python dicts keep insertion order; Python sets of str iterate in an  *)
(*    order fixed by the process's hash seed: variable hashOrder.          *)
(***************************************************************************)
EXTENDS Integers, Sequences, FiniteSets, TLC

\* ------------------------------------------------------------- bounds
MaxDirs == 2
MaxNames == 2
MaxHashes == 2
MaxFiles == 4
MaxGhosts == 1

\* ---------------------------------------------------- program constants
\* sync.py:417 "if idx % 10 == 0 or idx == len(files1) - 1"
ProgressEvery == 10

Folders == {1, 2}
Dirs == 1..MaxDirs
Names == 1..MaxNames
Hashes == 1..MaxHashes
\* one content more, for the trees whose conflict groups hold three versions
AllHashes == 1..(MaxHashes + 1)
Paths == [folder : Folders, dir : Dirs, name : Names]

\* sync.py:944, 950: keep_both writes "<name>.folder2" and "<name>.folder1";
\* origin k of basename n is the name n + k * MaxNames. No scan lists such a
\* name: its extension is not a supported one (sync.py:325-328).
Suffixed(n, k) == n + k * MaxNames
AllNames == 1..(3 * MaxNames)
AllPaths == [folder : Folders, dir : Dirs, name : AllNames]

NoFile == [exists |-> FALSE, md5 |-> 0, size |-> 0, mtime |-> 0, ctime |-> 0]

VARIABLES
  disk,            \* the filesystem: path -> file (NoFile when absent)
  catalog,         \* the documents table: a set of Document rows
  PROGRESS_STORE,  \* main.py PROGRESS_STORE entry of the job
  syncOut,         \* what the last sync_folders call did and returned
  elimOut,         \* what the last eliminate_duplicates call did and returned
  locked,          \* the files another process holds open
  cp,              \* the copy_file request in progress on the event loop
  wk,              \* an index_document call in progress on the worker thread
  pc,              \* position of the analysis job
  an,              \* locals of analyze_folder_sync
  hashOrder,       \* iteration order of str sets in this process
  lastUpdate,      \* the payload last handed to progress_callback
  lastEmit,        \* when progress_callback was last called, and why
  otherEntries,    \* PROGRESS_STORE's entries under the ids of other jobs
  polled,          \* what get_sync_progress last returned
  response,        \* the analysis response analyze_sync returned
  jobs,            \* the analyze_sync requests: where each one stands
  ANALYSIS_EXECUTOR, \* main.py ANALYSIS_EXECUTOR: work queue and busy workers
  cancelAt,        \* items processed when the callback first asked to cancel
  result           \* the value analyze_folder_sync returned

\* the state of the analysis job
jobVars == <<PROGRESS_STORE, pc, an, lastUpdate, lastEmit, cancelAt, result>>

\* the state of the executor and of the eliminator
copyVars == <<cp, wk>>

opVars == <<syncOut, elimOut, copyVars>>

\* the analyze_sync requests and the thread pool they submit to
poolVars == <<jobs, ANALYSIS_EXECUTOR>>

\* the store's other entries and what the endpoints last returned
apiVars == <<otherEntries, polled, response, poolVars>>

vars == <<disk, catalog, hashOrder, locked, apiVars, opVars, jobVars>>

\* ------------------------------------------------------------ helpers
Range(s) == {s[i] : i \in 1..Len(s)}

Min(a, b) == IF a <= b THEN a ELSE b

Max(a, b) == IF a >= b THEN a ELSE b

RECURSIVE Concat(_)
Concat(ss) ==
  IF ss = <<>> THEN <<>> ELSE Head(ss) \o Concat(Tail(ss))

RECURSIVE SumSeq(_)
SumSeq(s) ==
  IF s = <<>> THEN 0 ELSE Head(s) + SumSeq(Tail(s))

Perms(S) ==
  {s \in [1..Cardinality(S) -> S] : \A x \in S : \E i \in DOMAIN s : s[i] = x}

\* Iterating a Python set S of str: the elements of S in the process's order.
SetIter(S, order) ==
  LET In(h) == h \in S IN SelectSeq(order, In)

\* sorted(S) for a set of basenames
RECURSIVE SortedSeq(_)
SortedSeq(S) ==
  IF S = {} THEN <<>>
  ELSE LET m == CHOOSE x \in S : \A y \in S : x <= y
       IN <<m>> \o SortedSeq(S \ {m})

\* ------------------------------------------------------------ catalog
\* A Document row (database.py): id is the integer primary key, file_path
\* is unique.
RECURSIVE SortedById(_)
SortedById(S) ==
  IF S = {} THEN <<>>
  ELSE LET m == CHOOSE d \in S : \A e \in S : d.id <= e.id
       IN <<m>> \o SortedById(S \ {m})

\* The integer primary key SQLite gives a new row: the largest rowid plus 1.
NextId(cat) ==
  IF cat = {} THEN 1
  ELSE (CHOOSE i \in {d.id : d \in cat} : \A d \in cat : d.id <= i) + 1

\* file_scanner.py get_file_metadata + calculate_md5
MakeDoc(id, p, f) ==
  [id |-> id, path |-> p, md5 |-> f.md5, size |-> f.size, created |-> f.ctime]

\* file_scanner.py index_document, the stale-record cleanup: rows whose
\* directory column equals the indexed file's directory and whose file is gone.
CleanDirectory(cat, dsk, p) ==
  {d \in cat : ~(d.path.folder = p.folder /\ d.path.dir = p.dir
                 /\ ~dsk[d.path].exists)}

\* file_scanner.py index_document: the catalog after indexing path p.
IndexDocument(cat, dsk, p) ==
  IF ~dsk[p].exists THEN cat
  ELSE LET cleaned == CleanDirectory(cat, dsk, p)
           old == {d \in cleaned : d.path = p}
       IN IF old # {}
          THEN (cleaned \ old) \cup {MakeDoc(d.id, p, dsk[p]) : d \in old}
          ELSE cleaned \cup {MakeDoc(NextId(cleaned), p, dsk[p])}

\* sync.py scan_folder: os.walk top-down, the root's files first.
WalkOrder(f) ==
  [i \in 1..(MaxDirs * MaxNames) |->
     [folder |-> f, dir |-> ((i - 1) \div MaxNames) + 1,
      name |-> ((i - 1) % MaxNames) + 1]]

ScanFolder(dsk, f) ==
  LET Present(p) == dsk[p].exists IN SelectSeq(WalkOrder(f), Present)

\* db.query(Document).filter(Document.file_path.like(folder + "%")).all():
\* a table scan, rows in rowid order.
QueryFolder(cat, f) ==
  SortedById({d \in cat : d.path.folder = f})

\* -------------------------------------------------- compare, per name
WithName(docs, n) ==
  LET T(d) == d.path.name = n IN SelectSeq(docs, T)

WithMd5(docs, h) ==
  LET T(d) == d.md5 = h IN SelectSeq(docs, T)

\* keys of f1_by_md5 in insertion order
RECURSIVE Md5Keys(_)
Md5Keys(docs) ==
  IF docs = <<>> THEN <<>>
  ELSE LET rest == Md5Keys(SubSeq(docs, 1, Len(docs) - 1))
           h == docs[Len(docs)].md5
       IN IF h \in Range(rest) THEN rest ELSE Append(rest, h)

\* set(f1_by_md5.keys()) & set(f2_by_md5.keys()), as iterated
CommonMd5(docs1, docs2, order) ==
  SetIter(Range(Md5Keys(docs1)) \cap Range(Md5Keys(docs2)), order)

PairsCount(docs1, docs2, h) ==
  Min(Len(WithMd5(docs1, h)), Len(WithMd5(docs2, h)))

\* sync.py:662-687, exact_here
ExactHere(docs1, docs2, order) ==
  LET c == CommonMd5(docs1, docs2, order)
  IN SumSeq([i \in 1..Len(c) |-> PairsCount(docs1, docs2, c[i])])

\* sync.py:676-681, matched_pairs
MatchedPairs(docs1, docs2, order) ==
  LET c == CommonMd5(docs1, docs2, order)
  IN Concat([i \in 1..Len(c) |->
       [k \in 1..PairsCount(docs1, docs2, c[i]) |->
          [folder1 |-> WithMd5(docs1, c[i])[k],
           folder2 |-> WithMd5(docs2, c[i])[k],
           md5 |-> c[i]]]])

\* sync.py:683-696: the records of `mine` left unmatched against `other`
Unmatched(mine, other, docs1, docs2, order) ==
  LET c == CommonMd5(docs1, docs2, order)
      k == Md5Keys(mine)
      otherKeys == Range(Md5Keys(other))
      excess == Concat([i \in 1..Len(c) |->
                  SubSeq(WithMd5(mine, c[i]),
                         PairsCount(docs1, docs2, c[i]) + 1,
                         Len(WithMd5(mine, c[i])))])
      alone == Concat([i \in 1..Len(k) |->
                  IF k[i] \in otherKeys THEN <<>> ELSE WithMd5(mine, k[i])])
  IN excess \o alone

\* sync.py:713-718, the entry appended to duplicates
DuplicateEntry(n, docs1, docs2, order) ==
  LET u1 == Unmatched(docs1, docs2, docs1, docs2, order)
      u2 == Unmatched(docs2, docs1, docs1, docs2, order)
  IN [relative_path |-> n,
      folder1_docs |-> IF u1 # <<>> THEN u1 ELSE docs1,
      folder2_docs |-> IF u2 # <<>> THEN u2 ELSE docs2,
      matched_pairs |-> MatchedPairs(docs1, docs2, order)]

\* ------------------------------------------- analyze_folder_sync locals
\* sync.py:363-366, 480-552: the counters and lists before the first step
InitLocals ==
  [files |-> <<>>, idx |-> 0,
   scanned_indexed |-> 0, equals_count |-> 0, needs_sync_count |-> 0,
   docs1 |-> <<>>, docs2 |-> <<>>, names_all |-> <<>>, compared_count |-> 0,
   missing_in_folder1 |-> <<>>, missing_in_folder2 |-> <<>>,
   duplicates |-> <<>>,
   equals_by_name_count |-> 0, exact_match_count |-> 0,
   partial_match_count |-> 0, uniques_count |-> 0,
   matched_by_name_per_md5 |-> [h \in AllHashes |-> 0]]

\* sync.py:469-527: the two queries, the grouping by basename, names_all
Grouped(a, cat) ==
  LET d1 == QueryFolder(cat, 1)
      d2 == QueryFolder(cat, 2)
  IN [a EXCEPT !.docs1 = d1, !.docs2 = d2,
               !.names_all = SortedSeq({d.path.name : d \in Range(d1)}
                                       \cup {d.path.name : d \in Range(d2)})]

\* sync.py:554-761: one iteration of "for name_key in names_all"
CompareOne(a, order) ==
  LET n == a.names_all[a.compared_count + 1]
      d1 == WithName(a.docs1, n)
      d2 == WithName(a.docs2, n)
      b == [a EXCEPT !.compared_count = @ + 1]
  IN IF d2 = <<>>
     THEN [b EXCEPT !.missing_in_folder2 = @ \o d1,
                    !.uniques_count = @ + Len(d1),
                    !.needs_sync_count = @ + Len(d1)]
     ELSE IF d1 = <<>>
     THEN [b EXCEPT !.missing_in_folder1 = @ \o d2,
                    !.uniques_count = @ + Len(d2),
                    !.needs_sync_count = @ + Len(d2)]
     ELSE LET exact == ExactHere(d1, d2, order)
              partial == Len(Unmatched(d1, d2, d1, d2, order))
                         + Len(Unmatched(d2, d1, d1, d2, order))
          IN [b EXCEPT
                !.equals_by_name_count = @ + exact,
                !.equals_count = a.equals_by_name_count + exact,
                !.exact_match_count = @ + exact,
                !.partial_match_count = @ + partial,
                !.duplicates =
                   IF partial > 0
                   THEN Append(@, DuplicateEntry(n, d1, d2, order))
                   ELSE @,
                !.uniques_count = @ + partial,
                !.needs_sync_count = @ + partial,
                !.matched_by_name_per_md5 =
                   [h \in AllHashes |->
                      IF h \in Range(CommonMd5(d1, d2, order))
                      THEN @[h] + PairsCount(d1, d2, h) ELSE @[h]]]

RECURSIVE CompareAll(_, _)
CompareAll(a, order) ==
  IF a.compared_count = Len(a.names_all) THEN a
  ELSE CompareAll(CompareOne(a, order), order)

\* sync.py:763-795: MD5-only suspected duplicates across different names
NamesByMd5(docs, h) == {d.path.name : d \in Range(WithMd5(docs, h))}

Remaining(a, h) ==
  Max(0, Min(Len(WithMd5(a.docs1, h)), Len(WithMd5(a.docs2, h)))
         - a.matched_by_name_per_md5[h])

SuspectedDuplicates(a, order) ==
  LET both == SetIter({d.md5 : d \in Range(a.docs1)}
                      \cap {d.md5 : d \in Range(a.docs2)}, order)
  IN Concat([i \in 1..Len(both) |->
       IF Remaining(a, both[i]) > 0
          /\ NamesByMd5(a.docs1, both[i]) \cap NamesByMd5(a.docs2, both[i]) = {}
       THEN <<[md5 |-> both[i],
               folder1_names |-> SortedSeq(NamesByMd5(a.docs1, both[i])),
               folder2_names |-> SortedSeq(NamesByMd5(a.docs2, both[i])),
               count_pairs |-> Remaining(a, both[i])]>>
       ELSE <<>>])

SuspectedCount(a, order) ==
  LET s == SuspectedDuplicates(a, order)
  IN SumSeq([i \in 1..Len(s) |-> s[i].count_pairs])

NoResult ==
  [returned |-> FALSE,
   missing_in_folder1 |-> <<>>, missing_in_folder2 |-> <<>>,
   duplicates |-> <<>>, suspected_duplicates |-> <<>>,
   equals_by_name_count |-> 0, exact_match_count |-> 0,
   partial_match_count |-> 0,
   missing_count_folder1 |-> 0, missing_count_folder2 |-> 0,
   duplicate_count |-> 0,
   space_needed_folder1 |-> 0, space_needed_folder2 |-> 0]

\* a result that takes suspected renames for matches and drops them from
\* the missing lists
ResultHidingRenames(a, order) ==
  LET renamed == {e.md5 : e \in Range(SuspectedDuplicates(a, order))}
      Kept(d) == d.md5 \notin renamed
  IN [returned |-> TRUE,
      missing_in_folder1 |-> SelectSeq(a.missing_in_folder1, Kept),
      missing_in_folder2 |-> SelectSeq(a.missing_in_folder2, Kept),
      duplicates |-> a.duplicates,
      suspected_duplicates |-> SuspectedDuplicates(a, order),
      equals_by_name_count |-> a.equals_by_name_count,
      exact_match_count |-> a.exact_match_count,
      partial_match_count |-> a.partial_match_count,
      missing_count_folder1 |-> Len(a.missing_in_folder1),
      missing_count_folder2 |-> Len(a.missing_in_folder2),
      duplicate_count |-> Len(a.duplicates),
      space_needed_folder1 |-> 0, space_needed_folder2 |-> 0]

\* sync.py:813-828: the returned dictionary
ResultOf(a, order) ==
  [returned |-> TRUE,
   missing_in_folder1 |-> a.missing_in_folder1,
   missing_in_folder2 |-> a.missing_in_folder2,
   duplicates |-> a.duplicates,
   suspected_duplicates |-> SuspectedDuplicates(a, order),
   equals_by_name_count |-> a.equals_by_name_count,
   exact_match_count |-> a.exact_match_count,
   partial_match_count |-> a.partial_match_count,
   missing_count_folder1 |-> Len(a.missing_in_folder1),
   missing_count_folder2 |-> Len(a.missing_in_folder2),
   duplicate_count |-> Len(a.duplicates),
   space_needed_folder1 |->
      SumSeq([i \in 1..Len(a.missing_in_folder1) |-> a.missing_in_folder1[i].size]),
   space_needed_folder2 |->
      SumSeq([i \in 1..Len(a.missing_in_folder2) |-> a.missing_in_folder2[i].size])]

\* sync.py:402-466 without a callback: both scans, file by file
RECURSIVE IndexAll(_, _, _)
IndexAll(cat, dsk, files) ==
  IF files = <<>> THEN cat
  ELSE IndexAll(IndexDocument(cat, dsk, Head(files)), dsk, Tail(files))

ScanBoth(cat, dsk) ==
  LET c1 == IndexAll(cat, dsk, ScanFolder(dsk, 1))
  IN IndexAll(c1, dsk, ScanFolder(dsk, 2))

\* analyze_folder_sync(folder1, folder2) as one call, no callback
AnalyzeFolderSync(cat, dsk, order) ==
  ResultOf(CompareAll(Grouped(InitLocals, ScanBoth(cat, dsk)), order), order)

\* ------------------------------------------------------------ progress
NoUpdate ==
  [sent |-> FALSE, counters |-> FALSE, phase |-> "",
   scanned |-> 0, equals |-> 0, needs_sync |-> 0]

\* The payload built from the raw counters, none derived from the others
\* (as analyze_drive_sync's emit_progress does, sync.py:38-43).
CounterPayloadRaw(a, phase) ==
  [sent |-> TRUE, counters |-> TRUE, phase |-> phase,
   scanned |-> a.scanned_indexed,
   equals |-> a.equals_count,
   needs_sync |-> a.needs_sync_count]

\* sync.py:376-390: the payload emit_progress builds from the counters
CounterPayload(a, phase) ==
  LET displayed_equals == Max(0, a.equals_count)
      base_scanned == Max(0, a.scanned_indexed)
      derived_needs == Max(0, base_scanned - displayed_equals)
      displayed_needs == Max(a.needs_sync_count, derived_needs)
  IN [sent |-> TRUE, counters |-> TRUE, phase |-> phase,
      scanned |-> displayed_equals + displayed_needs,
      equals |-> displayed_equals,
      needs_sync |-> displayed_needs]

\* sync.py:610-615, 632-637, 756-761: payload.update(extra) in the compare loop
ComparePayload(a) ==
  [CounterPayload(a, "compare") EXCEPT
     !.scanned = a.equals_by_name_count + a.uniques_count,
     !.equals = a.equals_by_name_count,
     !.needs_sync = a.uniques_count]

\* sync.py:797-811: the "Comparison completed" payload
FinalPayload(a, order) ==
  [CounterPayload(a, "compare") EXCEPT
     !.scanned = a.equals_by_name_count + a.uniques_count + SuspectedCount(a, order),
     !.equals = a.equals_by_name_count,
     !.needs_sync = a.uniques_count + SuspectedCount(a, order)]

\* sync.py:405-410, 438-443: the callback called directly, without counters
DirectPayload ==
  [sent |-> TRUE, counters |-> FALSE, phase |-> "",
   scanned |-> 0, equals |-> 0, needs_sync |-> 0]

NoEntry ==
  [exists |-> FALSE, scanned |-> 0, equals |-> 0, needs_sync |-> 0,
   phase |-> ""]

\* main.py:1124-1131
StartingEntry ==
  [exists |-> TRUE, scanned |-> 0, equals |-> 0, needs_sync |-> 0,
   phase |-> "starting"]

\* main.py:1134-1150: analyze_sync.progress_callback merging an update
ProgressCallback(entry, update) ==
  [exists |-> TRUE,
   scanned |-> IF update.counters THEN update.scanned ELSE entry.scanned,
   equals |-> IF update.counters THEN update.equals ELSE entry.equals,
   needs_sync |-> IF update.counters THEN update.needs_sync
                  ELSE entry.needs_sync,
   phase |-> IF update.phase # "" THEN update.phase
             ELSE IF entry.exists THEN entry.phase ELSE "running"]

\* files and names the analysis has gone through so far
Processed(a) == a.scanned_indexed + a.compared_count

NoCancel == [asked |-> FALSE, at |-> 0]

\* main.py:38: PROGRESS_STORE holds no entry of another job
NoOthers == [i \in {} |-> NoEntry]

\* main.py:1122-1150: the dict PROGRESS_STORE, the job's entry under "job"
StoreOf(entry, others) ==
  [i \in (IF entry.exists THEN {"job"} ELSE {}) \cup DOMAIN others |->
     IF i = "job" THEN entry ELSE others[i]]

\* a lookup that falls back on the entry of some other key
GetNearest(store, job_id) ==
  IF job_id \in DOMAIN store THEN store[job_id]
  ELSE IF DOMAIN store # {} THEN store[CHOOSE k \in DOMAIN store : TRUE]
  ELSE NoEntry

\* main.py:649: PROGRESS_STORE.get(job_id), None (NoEntry) for a missing key
Get(store, job_id) ==
  IF job_id \in DOMAIN store THEN store[job_id] ELSE NoEntry

\* main.py:660-666: the snapshot returned when nothing is stored
IdleSnapshot ==
  [exists |-> TRUE, scanned |-> 0, equals |-> 0, needs_sync |-> 0,
   phase |-> "idle"]

NoPoll == [called |-> FALSE, job_id |-> "", data |-> NoEntry]

\* ------------------------------------- analyze_sync requests and the pool
MaxJobs == 3

\* main.py:40: ThreadPoolExecutor(max_workers=1)
max_workers == 1

Reqs == 1..MaxJobs

\* main.py:1119, 4103: the page draws a new job_id for every analysis
JobIdOf(r) == <<"job-1", "job-2", "job-3">>[r]

NoJobs == [r \in Reqs |-> "none"]

IdleExecutor == [queue |-> <<>>, running |-> {}]

\* a pool that starts every work item at once
WorkerAlwaysFree(executor) == TRUE

\* ThreadPoolExecutor: a work item is started when fewer than max_workers
\* threads are busy
WorkerFree(executor) == Cardinality(executor.running) < max_workers

\* sync.py:400-806: the payloads analyze_folder_sync hands to the callback
JobUpdates ==
  [sent : {TRUE}, counters : {TRUE}, scanned : 0..1, equals : {0},
   needs_sync : {0},
   phase : {"starting", "scan_folder1", "scan_folder2", "compare"}]
  \cup {DirectPayload}

\* sync.py:375, 393: no call of progress_callback yet. at: the items gone
\* through when it was last called; timing: "transition" for a call at the
\* start or end of a phase, "elapsed" for a call made a second or more
\* after the one before, "forced" for a call made sooner under force=True.
NoEmit == [at |-> 0, timing |-> "none"]

\* ------------------------------------------------------- sync_folders
MaxTime == 2

\* the clock when a copy is made: later than every timestamp on disk
Now == MaxTime + 1

Strategies == {"keep_both", "keep_newest", "keep_largest"}

NoFault == [kind |-> "none", at |-> 0]

\* What happens to the k-th copy of a call: "none", "corrupt" (the bytes
\* written are not the source's) or "error" (shutil.copy2 raises before
\* writing, the target cannot be opened).
FaultAt(fault, k) == IF fault.at = k THEN fault.kind ELSE "none"

NoSync ==
  [called |-> FALSE, op |-> "", dry_run |-> FALSE, strategy |-> "",
   status |-> "",
   analysis |-> NoResult,
   copied |-> [f \in Folders |-> <<>>], resolved |-> <<>>, errors |-> <<>>,
   log |-> <<>>, copies |-> <<>>, made_dirs |-> {}, n |-> 0]

\* The executor's running state: the trees, the catalog, the lists of
\* sync.py:872-875, the activity log, and a trace of the copies made.
StartSync(dsk, cat, strategy, analysis) ==
  [disk |-> dsk, catalog |-> cat,
   out |-> [NoSync EXCEPT !.called = TRUE, !.op = "sync_folders",
                          !.strategy = strategy,
                          !.status = "completed", !.analysis = analysis]]

\* a target that is the source itself
TargetSameSide(p, f) == p

\* join(target_folder, relpath(doc.file_path, folder)), default targets
TargetOf(p, f) == [folder |-> f, dir |-> p.dir, name |-> p.name]

\* join(target_folder, rel_path) for a conflict: rel_path is the basename
RootTarget(f, n) == [folder |-> f, dir |-> 1, name |-> n]

DirExists(st, f, d) ==
  \/ d = 1
  \/ <<f, d>> \in st.out.made_dirs
  \/ \E p \in AllPaths : p.folder = f /\ p.dir = d /\ st.disk[p].exists

\* os.makedirs(os.path.dirname(target), exist_ok=True)
Makedirs(st, t) ==
  IF DirExists(st, t.folder, t.dir) THEN st
  ELSE [st EXCEPT !.out.made_dirs = @ \cup {<<t.folder, t.dir>>}]

\* content other than h: what a truncated or corrupted copy holds
OtherHash(h) == (h % MaxHashes) + 1

\* shutil.copy2(src, t) raises: the source is gone, or the target cannot
\* be written
CopyRaises(st, src, outcome) ==
  ~st.disk[src].exists \/ outcome = "error"

\* shutil.copy2(src, t): content and modification time of the source
Copy2(st, src, t, outcome) ==
  LET f == st.disk[src]
      w == IF outcome = "corrupt"
           THEN [f EXCEPT !.md5 = OtherHash(f.md5), !.size = OtherHash(f.md5),
                          !.ctime = Now]
           ELSE [f EXCEPT !.ctime = Now]
  IN [st EXCEPT !.disk[t] = w]

\* one entry of the trace of copies: the record copied, where to, the hash
\* the target holds afterwards, whether the item was counted as copied
CopyMade(doc, t, written, counted) ==
  [doc |-> doc, target |-> t, written |-> written, counted |-> counted]

SyncError(kind, p) == [kind |-> kind, path |-> p]

\* sync.py:879-902, 906-929: one file unique to the other side, copied to
\* folder f
UniqueCopy(st, doc, f, fault) ==
  LET t == TargetOf(doc.path, f)
      k == st.out.n + 1
      s1 == Makedirs([st EXCEPT !.out.n = k], t)
  IN IF CopyRaises(s1, doc.path, FaultAt(fault, k))
     THEN [s1 EXCEPT !.out.errors = Append(@, SyncError("copy_error", doc.path))]
     ELSE LET s2 == Copy2(s1, doc.path, t, FaultAt(fault, k))
              new_hash == s2.disk[t].md5
          IN IF new_hash = doc.md5
             THEN [s2 EXCEPT
                     !.out.copied[f] = Append(@, t),
                     !.catalog = IndexDocument(@, s2.disk, t),
                     !.out.log = Append(@, t),
                     !.out.copies = Append(@, CopyMade(doc, t, new_hash, TRUE))]
             ELSE [s2 EXCEPT
                     !.out.errors = Append(@, SyncError("md5_mismatch", t)),
                     !.out.copies = Append(@, CopyMade(doc, t, new_hash, FALSE))]

RECURSIVE UniqueCopies(_, _, _, _)
UniqueCopies(st, docs, f, fault) ==
  IF docs = <<>> THEN st
  ELSE UniqueCopies(UniqueCopy(st, Head(docs), f, fault), Tail(docs), f, fault)

\* sync.py:972-982 and the like: a conflict resolved by copying doc over
\* the other side's file of that name; nothing is re-hashed
ResolveCopy(st, doc, f, n, action, fault) ==
  LET t == RootTarget(f, n)
      k == st.out.n + 1
      s1 == Makedirs([st EXCEPT !.out.n = k], t)
  IN IF CopyRaises(s1, doc.path, FaultAt(fault, k))
     THEN [s1 EXCEPT !.out.errors = Append(@, SyncError("resolve_error", t))]
     ELSE LET s2 == Copy2(s1, doc.path, t, FaultAt(fault, k))
          IN [s2 EXCEPT
                !.out.copied[f] = Append(@, t),
                !.out.resolved = Append(@, [relative_path |-> n, action |-> action]),
                !.out.copies = Append(@, CopyMade(doc, t, s2.disk[t].md5, TRUE))]

\* sync.py:940-962: keep_both, two copies under suffixed names in one try
KeepBoth(st, n, doc1, doc2, fault) ==
  LET t1 == RootTarget(1, Suffixed(n, 2))
      t2 == RootTarget(2, Suffixed(n, 1))
      k1 == st.out.n + 1
      s1 == Makedirs([st EXCEPT !.out.n = k1], t1)
  IN IF CopyRaises(s1, doc2.path, FaultAt(fault, k1))
     THEN [s1 EXCEPT !.out.errors = Append(@, SyncError("resolve_error", t1))]
     ELSE LET s2 == Copy2(s1, doc2.path, t1, FaultAt(fault, k1))
              s3 == [s2 EXCEPT
                       !.out.copied[1] = Append(@, t1),
                       !.out.copies =
                          Append(@, CopyMade(doc2, t1, s2.disk[t1].md5, TRUE)),
                       !.out.n = k1 + 1]
              s4 == Makedirs(s3, t2)
          IN IF CopyRaises(s4, doc1.path, FaultAt(fault, k1 + 1))
             THEN [s4 EXCEPT
                     !.out.errors = Append(@, SyncError("resolve_error", t2))]
             ELSE LET s5 == Copy2(s4, doc1.path, t2, FaultAt(fault, k1 + 1))
                  IN [s5 EXCEPT
                        !.out.copied[2] = Append(@, t2),
                        !.out.copies =
                           Append(@, CopyMade(doc1, t2, s5.disk[t2].md5, TRUE)),
                        !.out.resolved =
                           Append(@, [relative_path |-> n, action |-> "keep_both"])]

\* sync.py:932-1027: one conflict group resolved under the strategy
ResolveDuplicate(st, dup, strategy, fault) ==
  LET n == dup.relative_path
      doc1 == dup.folder1_docs[1]
      doc2 == dup.folder2_docs[1]
  IN IF strategy = "keep_both" THEN KeepBoth(st, n, doc1, doc2, fault)
     ELSE IF strategy = "keep_newest"
     THEN IF doc2.created > doc1.created
          THEN ResolveCopy(st, doc2, 1, n, "keep_newest_folder2", fault)
          ELSE ResolveCopy(st, doc1, 2, n, "keep_newest_folder1", fault)
     ELSE IF strategy = "keep_largest"
     THEN IF doc2.size > doc1.size
          THEN ResolveCopy(st, doc2, 1, n, "keep_largest_folder2", fault)
          ELSE ResolveCopy(st, doc1, 2, n, "keep_largest_folder1", fault)
     ELSE st

RECURSIVE ResolveAll(_, _, _, _)
ResolveAll(st, dups, strategy, fault) ==
  IF dups = <<>> THEN st
  ELSE ResolveAll(ResolveDuplicate(st, Head(dups), strategy, fault),
                  Tail(dups), strategy, fault)

\* sync.py:872-1035: sync_folders past the dry-run return
Execute(dsk, cat, analysis, strategy, fault) ==
  LET s0 == StartSync(dsk, cat, strategy, analysis)
      s1 == UniqueCopies(s0, analysis.missing_in_folder1, 1, fault)
      s2 == UniqueCopies(s1, analysis.missing_in_folder2, 2, fault)
  IN ResolveAll(s2, analysis.duplicates, strategy, fault)

\* a dry run that goes on to execute the plan
DryRunExecuting(dsk, cat, analysis, strategy) ==
  [Execute(dsk, cat, analysis, strategy, NoFault) EXCEPT
     !.out.dry_run = TRUE, !.out.status = "dry_run"]

\* sync.py:863-870, 185-192: the dry-run return
DryRun(dsk, cat, analysis, strategy) ==
  [StartSync(dsk, cat, strategy, analysis) EXCEPT
     !.out.dry_run = TRUE, !.out.status = "dry_run"]

\* ------------------------------------------------------- sync_drives
\* sync.py:131-143: the rows of one drive whose content the other drive
\* lacks, hash by hash in the order the hashes were first met
DriveMissing(mine, other) ==
  LET keys == Md5Keys(mine)
  IN Concat([i \in 1..Len(keys) |->
               IF keys[i] \in {d.md5 : d \in Range(other)} THEN <<>>
               ELSE WithMd5(mine, keys[i])])

\* sync.py:109-160: analyze_drive_sync, the two trees standing on the two
\* drives; the catalog is read as it is, nothing is scanned. The fields
\* missing_in_folder1/2 hold files_to_copy_drive1/2.
AnalyzeDriveSync(cat) ==
  LET docs1 == QueryFolder(cat, 1)
      docs2 == QueryFolder(cat, 2)
      m1 == DriveMissing(docs2, docs1)
      m2 == DriveMissing(docs1, docs2)
  IN [NoResult EXCEPT
        !.returned = TRUE,
        !.missing_in_folder1 = m1, !.missing_in_folder2 = m2,
        !.missing_count_folder1 = Len(m1), !.missing_count_folder2 = Len(m2),
        !.space_needed_folder1 = SumSeq([i \in 1..Len(m1) |-> m1[i].size]),
        !.space_needed_folder2 = SumSeq([i \in 1..Len(m2) |-> m2[i].size])]

\* sync.py:194-263: sync_drives past the dry-run return; each copy goes
\* the way of a unique-file copy of sync_folders
ExecuteDrives(dsk, cat, analysis, fault) ==
  LET s0 == StartSync(dsk, cat, "", analysis)
      s1 == UniqueCopies(s0, analysis.missing_in_folder1, 1, fault)
  IN UniqueCopies(s1, analysis.missing_in_folder2, 2, fault)

\* ----------------------------------------------- eliminate_duplicates
\* datetime.isoformat() and datetime.fromisoformat(): a timestamp as the
\* text the response and the request carry
ToIso(t) == [iso |-> t]

FromIso(x) == x.iso

NoDate == [has |-> FALSE, text |-> ToIso(0)]

SomeDate(t) == [has |-> TRUE, text |-> ToIso(t)]

\* main.py:1205-1230: one document of a conflict group as the analysis
\* response lists it and the request sends it back; id 0 is no id.
\* withModified: whether the request carries date_modified.
RequestDoc(dsk, cat, p, withModified) ==
  LET rows == {d \in cat : d.path = p}
      row == CHOOSE d \in rows : TRUE
  IN [file_path |-> p,
      id |-> IF rows = {} THEN 0 ELSE row.id,
      date_modified |-> IF withModified /\ dsk[p].exists
                        THEN SomeDate(dsk[p].mtime) ELSE NoDate,
      date_created |-> IF rows = {} THEN NoDate ELSE SomeDate(row.created),
      size |-> IF rows = {} THEN 0 ELSE row.size]

\* main.py:1190, 1200, 1230: the slice applied to each list of the response
ResponseLimit == 5000

Take(s, n) == SubSeq(s, 1, Min(Len(s), n))

\* main.py:1183-1189, 1193-1199: a document of a missing list
DocJson(doc) ==
  [id |-> doc.id, name |-> doc.path.name, file_path |-> doc.path,
   size |-> doc.size, md5_hash |-> doc.md5]

\* main.py:1205-1228: a document of a conflict group
GroupDocJson(dsk, doc) ==
  [id |-> doc.id, name |-> doc.path.name, file_path |-> doc.path,
   size |-> doc.size, md5_hash |-> doc.md5,
   date_created |-> SomeDate(doc.created),
   date_modified |-> IF dsk[doc.path].exists
                     THEN SomeDate(dsk[doc.path].mtime) ELSE NoDate]

GroupJson(dsk, dup) ==
  [relative_path |-> dup.relative_path,
   folder1_docs |-> [i \in 1..Len(dup.folder1_docs) |->
                       GroupDocJson(dsk, dup.folder1_docs[i])],
   folder2_docs |-> [i \in 1..Len(dup.folder2_docs) |->
                       GroupDocJson(dsk, dup.folder2_docs[i])]]

NoResponse ==
  [built |-> FALSE,
   missing_count_folder1 |-> 0, missing_count_folder2 |-> 0,
   duplicate_count |-> 0,
   missing_in_folder1 |-> <<>>, missing_in_folder2 |-> <<>>,
   duplicates |-> <<>>]

\* main.py:1170-1232: the "analysis" object of the response
AnalysisResponse(dsk, analysis) ==
  LET m1 == Take(analysis.missing_in_folder1, ResponseLimit)
      m2 == Take(analysis.missing_in_folder2, ResponseLimit)
      dups == Take(analysis.duplicates, ResponseLimit)
  IN [built |-> TRUE,
      missing_count_folder1 |-> analysis.missing_count_folder1,
      missing_count_folder2 |-> analysis.missing_count_folder2,
      duplicate_count |-> analysis.duplicate_count,
      missing_in_folder1 |-> [i \in 1..Len(m1) |-> DocJson(m1[i])],
      missing_in_folder2 |-> [i \in 1..Len(m2) |-> DocJson(m2[i])],
      duplicates |-> [i \in 1..Len(dups) |-> GroupJson(dsk, dups[i])]]

NoElim ==
  [called |-> FALSE, op |-> "", target_folder |-> 0,
   request |-> <<>>, success |-> FALSE,
   deleted_count |-> 0, kept_count |-> 0, errors |-> <<>>, log |-> <<>>]

\* main.py:1815-1836
AllFiles(dup) == dup.folder1_docs \o dup.folder2_docs

\* main.py:1848-1877: the date a file is compared by
CompareDate(dsk, info) ==
  LET modified == IF ~info.date_modified.has /\ dsk[info.file_path].exists
                  THEN SomeDate(dsk[info.file_path].mtime)
                  ELSE info.date_modified
  IN IF modified.has THEN [has |-> TRUE, at |-> FromIso(modified.text)]
     ELSE IF info.date_created.has
     THEN [has |-> TRUE, at |-> FromIso(info.date_created.text)]
     ELSE IF dsk[info.file_path].exists
     THEN [has |-> TRUE, at |-> dsk[info.file_path].mtime]
     ELSE [has |-> FALSE, at |-> 0]

\* the comparison of main.py:1880 turned round
Earlier(compare_date, latest_date) == compare_date < latest_date

\* main.py:1879-1882: whether file_info replaces the latest found so far
Later(compare_date, latest_date) == compare_date > latest_date

\* main.py:1843-1882: the index in all_files of latest_file, 0 for none
RECURSIVE LatestIndex(_, _, _)
LatestIndex(dsk, files, upto) ==
  IF upto = 0 THEN 0
  ELSE LET before == LatestIndex(dsk, files, upto - 1)
           cd == CompareDate(dsk, files[upto])
       IN IF cd.has
             /\ (before = 0 \/ Later(cd.at, CompareDate(dsk, files[before]).at))
          THEN upto ELSE before

ElimError(kind, p) == [kind |-> kind, path |-> p]

\* main.py:1890-2006: one file of the group in the deletion loop
EliminateOne(st, info, latest) ==
  LET p == info.file_path
  IN IF p = latest.file_path
     THEN [st EXCEPT !.out.kept_count = @ + 1]
     ELSE IF ~st.disk[p].exists THEN st
     ELSE IF p \in st.locked
     THEN [st EXCEPT !.out.errors = Append(@, ElimError("locked", p))]
     ELSE [st EXCEPT
             !.disk[p] = NoFile,
             !.out.deleted_count = @ + 1,
             !.catalog = IF info.id # 0 THEN {d \in @ : d.id # info.id} ELSE @,
             !.out.log = Append(@, p)]

RECURSIVE EliminateFiles(_, _, _)
EliminateFiles(st, files, latest) ==
  IF files = <<>> THEN st
  ELSE EliminateFiles(EliminateOne(st, Head(files), latest), Tail(files), latest)

\* main.py:1813-2006: one group of the request
EliminateGroup(st, dup) ==
  LET files == AllFiles(dup)
      li == LatestIndex(st.disk, files, Len(files))
  IN IF Len(files) < 2 THEN st
     ELSE IF li = 0
     THEN EliminateFiles(
            [st EXCEPT !.out.errors =
                         Append(@, ElimError("no_date", files[1].file_path))],
            files, files[1])
     ELSE EliminateFiles(st, files, files[li])

RECURSIVE EliminateGroups(_, _)
EliminateGroups(st, dups) ==
  IF dups = <<>> THEN st
  ELSE EliminateGroups(EliminateGroup(st, Head(dups)), Tail(dups))

\* main.py:1800-2051: eliminate_duplicates on the request's groups
Eliminate(dsk, cat, lck, request) ==
  IF request = <<>>
  THEN [disk |-> dsk, catalog |-> cat, locked |-> lck,
        out |-> [NoElim EXCEPT !.called = TRUE, !.op = "eliminate_duplicates"]]
  ELSE EliminateGroups(
         [disk |-> dsk, catalog |-> cat, locked |-> lck,
          out |-> [NoElim EXCEPT !.called = TRUE, !.request = request,
                                 !.op = "eliminate_duplicates",
                                 !.success = TRUE]],
         request)

\* ----------------------------------------- eliminate_duplicates_folder
\* main.py:1514-1533: the "folder" key of the i-th entry of all_files
SideOf(dup, i) == IF i <= Len(dup.folder1_docs) THEN 1 ELSE 2

\* the files of every side go through the deletion loop
OnEitherSide(folder, target_folder) == TRUE

\* main.py:1588-1589: only files from the target folder are processed
OnTarget(folder, target_folder) == folder = target_folder

\* main.py:1586-1726: one file of the group in the deletion loop;
\* db_fails: the removal of the file's row raises
EliminateOneFolder(st, info, folder, latest, target_folder, db_fails) ==
  LET p == info.file_path
  IN IF ~OnTarget(folder, target_folder) THEN st
     ELSE IF p = latest.file_path
     THEN [st EXCEPT !.out.kept_count = @ + 1]
     ELSE IF ~st.disk[p].exists THEN st
     ELSE IF p \in st.locked
     THEN [st EXCEPT !.out.errors = Append(@, ElimError("locked", p))]
     ELSE LET removes == info.id # 0 /\ \E d \in st.catalog : d.id = info.id
          IN [st EXCEPT
                !.disk[p] = NoFile,
                !.out.deleted_count = @ + 1,
                !.catalog = IF removes /\ ~db_fails
                            THEN {d \in @ : d.id # info.id} ELSE @,
                !.out.errors = IF removes /\ db_fails
                               THEN Append(@, ElimError("db_error", p)) ELSE @,
                !.out.log = Append(@, p)]

RECURSIVE EliminateFilesFolder(_, _, _, _, _, _)
EliminateFilesFolder(st, dup, i, latest, target_folder, db_fails) ==
  IF i > Len(AllFiles(dup)) THEN st
  ELSE EliminateFilesFolder(
         EliminateOneFolder(st, AllFiles(dup)[i], SideOf(dup, i), latest,
                            target_folder, db_fails),
         dup, i + 1, latest, target_folder, db_fails)

\* main.py:1509-1726: one group of the request; without a date the first
\* file is the latest and nothing is added to errors
EliminateGroupFolder(st, dup, target_folder, db_fails) ==
  LET files == AllFiles(dup)
      li == LatestIndex(st.disk, files, Len(files))
  IN IF Len(files) < 2 THEN st
     ELSE EliminateFilesFolder(st, dup, 1,
                               IF li = 0 THEN files[1] ELSE files[li],
                               target_folder, db_fails)

RECURSIVE EliminateGroupsFolder(_, _, _, _)
EliminateGroupsFolder(st, dups, target_folder, db_fails) ==
  IF dups = <<>> THEN st
  ELSE EliminateGroupsFolder(
         EliminateGroupFolder(st, Head(dups), target_folder, db_fails),
         Tail(dups), target_folder, db_fails)

\* main.py:1728-1766: the rows under the target folder whose file is gone
\* are removed; the page sends folder1 and folder2 with every request
CleanupFolder(st, target_folder) ==
  [st EXCEPT !.catalog =
     {d \in @ : d.path.folder = target_folder => st.disk[d.path].exists}]

\* main.py:1494-1774: eliminate_duplicates_folder on the request's groups
EliminateFolder(dsk, cat, lck, request, target_folder, db_fails) ==
  LET s0 == [disk |-> dsk, catalog |-> cat, locked |-> lck,
             out |-> [NoElim EXCEPT !.called = TRUE,
                                    !.op = "eliminate_duplicates_folder",
                                    !.target_folder = target_folder]]
  IN IF request = <<>> THEN s0
     ELSE CleanupFolder(
            EliminateGroupsFolder(
              [s0 EXCEPT !.out.request = request, !.out.success = TRUE],
              request, target_folder, db_fails),
            target_folder)

\* ------------------------------------------------------------ copy_file
\* file_scanner.py:139-187: the first half of index_document's database
\* work in its own session: the stale rows of the directory are removed and
\* committed, the row of the path is looked up (id 0: none)
IndexQuery(cat, dsk, p) ==
  LET cleaned == CleanDirectory(cat, dsk, p)
      rows == {d \in cleaned : d.path = p}
  IN [catalog |-> cleaned,
      existing |-> IF rows = {} THEN 0 ELSE (CHOOSE d \in rows : TRUE).id]

\* db.add and db.commit on a table without the unique index
InsertUnchecked(cat, p, f) ==
  [catalog |-> cat \cup {MakeDoc(NextId(cat), p, f)}, returned |-> "record"]

\* file_scanner.py:240-249, database.py:22-23: db.add and db.commit; the
\* column file_path is unique, the commit of a second row for a path
\* raises IntegrityError and index_document returns None
Insert(cat, p, f) ==
  IF \E d \in cat : d.path = p
  THEN [catalog |-> cat, returned |-> "none"]
  ELSE [catalog |-> cat \cup {MakeDoc(NextId(cat), p, f)}, returned |-> "record"]

\* file_scanner.py:189-249: the second half: the row found is updated (the
\* UPDATE of a row deleted meanwhile raises and None is returned), or a
\* new row is inserted
IndexCommit(cat, p, f, existing) ==
  IF existing # 0
  THEN IF \E d \in cat : d.id = existing
       THEN [catalog |-> {d \in cat : d.id # existing}
                           \cup {MakeDoc(existing, p, f)},
             returned |-> "record"]
       ELSE [catalog |-> cat, returned |-> "none"]
  ELSE Insert(cat, p, f)

\* a Document row that was not found
NoRow == [id |-> 0, path |-> [folder |-> 1, dir |-> 1, name |-> 1],
          md5 |-> 0, size |-> 0, created |-> 0]

\* the file shutil.copy2 has opened for writing and not yet filled: its
\* content is no document's content
PartialFile ==
  [exists |-> TRUE, md5 |-> 0, size |-> 0, mtime |-> Now, ctime |-> Now]

NoCopy ==
  [pc |-> "idle", source |-> NoRow, target |-> NoRow.path,
   success |-> FALSE, skipped |-> FALSE, error |-> "", new_hash |-> 0,
   read |-> NoFile, writes |-> 0, log |-> <<>>,
   before |-> NoFile, existing |-> 0, indexed |-> ""]

NoWork ==
  [pc |-> "idle", path |-> NoRow.path, read |-> NoFile, existing |-> 0,
   indexed |-> ""]

\* main.py:1285-1375: a return with success False
CopyFailed(c, error) == [c EXCEPT !.pc = "done", !.error = error]

\* ------------------------------------------------------- initial states
\* A file of the analysis specifications: content h, its size, one timestamp.
PlainFile(h) ==
  [exists |-> TRUE, md5 |-> h, size |-> h, mtime |-> 1, ctime |-> 1]

\* The disks holding at most n files, each one of the files in vals
DisksOf(vals, n) ==
  UNION {{[p \in AllPaths |-> IF p \in S THEN e[p] ELSE NoFile] :
            e \in [S -> vals]} :
         S \in {T \in SUBSET Paths : Cardinality(T) <= n}}

FilesOn(dsk) == {p \in AllPaths : dsk[p].exists}

Disks == DisksOf({PlainFile(h) : h \in Hashes}, MaxFiles)

\* Rows left by files that were indexed and have since been removed.
GhostSets(dsk) ==
  {g \in SUBSET [path : {p \in Paths : ~dsk[p].exists}, md5 : Hashes] :
     /\ Cardinality(g) <= MaxGhosts
     /\ \A x, y \in g : x.path = y.path => x = y}

RECURSIVE AddGhosts(_, _)
AddGhosts(cat, g) ==
  IF g = {} THEN cat
  ELSE LET x == CHOOSE y \in g : TRUE
       IN AddGhosts(cat \cup {MakeDoc(NextId(cat), x.path, PlainFile(x.md5))},
                    g \ {x})

\* The catalog of an earlier session: nothing indexed yet, or both trees
\* indexed; plus the rows of files removed since.
InitCatalogs(dsk) ==
  {AddGhosts(base, g) : base \in {{}, ScanBoth({}, dsk)}, g \in GhostSets(dsk)}

InitCommon ==
  /\ jobs = NoJobs
  /\ ANALYSIS_EXECUTOR = IdleExecutor
  /\ syncOut = NoSync
  /\ elimOut = NoElim
  /\ cp = NoCopy
  /\ wk = NoWork
  /\ PROGRESS_STORE = NoEntry
  /\ pc = "idle"
  /\ an = InitLocals
  /\ hashOrder \in Perms(Hashes)
  /\ lastUpdate = NoUpdate
  /\ lastEmit = NoEmit
  /\ polled = NoPoll
  /\ response = NoResponse
  /\ cancelAt = NoCancel
  /\ result = NoResult

Init ==
  /\ disk \in Disks
  /\ catalog \in InitCatalogs(disk)
  /\ locked = {}
  /\ otherEntries = NoOthers
  /\ InitCommon

\* -------------------------------------------------------------- actions
\* progress_callback(update) is called; ret is whether the callback's return
\* value asks to cancel (emit_progress drops it, sync.py:393).
Callback(update, ret, a, timing) ==
  /\ PROGRESS_STORE' = ProgressCallback(PROGRESS_STORE, update)
  /\ lastUpdate' = update
  /\ lastEmit' = [at |-> Processed(a), timing |-> timing]
  /\ cancelAt' = IF ret /\ ~cancelAt.asked
                 THEN [asked |-> TRUE, at |-> Processed(a)]
                 ELSE cancelAt

NoCallback == UNCHANGED <<PROGRESS_STORE, lastUpdate, lastEmit, cancelAt>>

\* main.py:1119-1131: analyze_sync initialises the job's entry and submits
\* analyze_folder_sync to the executor.
AnalyzeSyncStart ==
  /\ pc = "idle"
  /\ PROGRESS_STORE' = StartingEntry
  /\ pc' = "submitted"
  /\ UNCHANGED <<disk, catalog, hashOrder, locked, apiVars, opVars, an, lastUpdate, lastEmit,
                 cancelAt, result>>

\* sync.py:360-400: the locals are initialised and "starting" is emitted
\* (last_emit_time starts one second back, so this emit always goes out).
EmitStarting(ret) ==
  /\ pc = "submitted"
  /\ an' = InitLocals
  /\ Callback(CounterPayload(InitLocals, "starting"), ret, InitLocals,
              "transition")
  /\ pc' = "scan1_start"
  /\ UNCHANGED <<disk, catalog, hashOrder, locked, apiVars, opVars, result>>

PcStart(f) == IF f = 1 THEN "scan1_start" ELSE "scan2_start"

PcScan(f) == IF f = 1 THEN "scan1" ELSE "scan2"

PcDone(f) == IF f = 1 THEN "scan1_done" ELSE "scan2_done"

PhaseOf(f) == IF f = 1 THEN "scan_folder1" ELSE "scan_folder2"

\* sync.py:404-411, 437-444: the direct callback, then scan_folder
ScanStart(f, ret) ==
  /\ pc = PcStart(f)
  /\ Callback(DirectPayload, ret, an, "transition")
  /\ an' = [an EXCEPT !.files = ScanFolder(disk, f), !.idx = 0]
  /\ pc' = IF ScanFolder(disk, f) = <<>> THEN PcDone(f) ELSE PcScan(f)
  /\ UNCHANGED <<disk, catalog, hashOrder, locked, apiVars, opVars, result>>

\* sync.py:413-426, 446-459: one iteration of the indexing loop; due is
\* whether a second has passed since the last emit.
IndexFile(f, due, ret) ==
  /\ pc = PcScan(f)
  /\ catalog' = IndexDocument(catalog, disk, an.files[an.idx + 1])
  /\ LET a == [an EXCEPT !.scanned_indexed = @ + 1, !.idx = @ + 1]
     IN /\ an' = a
        /\ IF (an.idx % ProgressEvery = 0 \/ an.idx = Len(an.files) - 1) /\ due
           THEN Callback(CounterPayload(a, PhaseOf(f)), ret, a, "elapsed")
           ELSE NoCallback
        /\ pc' = IF a.idx = Len(a.files) THEN PcDone(f) ELSE PcScan(f)
  /\ UNCHANGED <<disk, hashOrder, locked, apiVars, opVars, result>>

\* sync.py:427-431, 460-464: the emit after the loop, made only if a
\* second has passed since the last emit (due)
ScanDone(f, due, ret) ==
  /\ pc = PcDone(f)
  /\ IF due THEN Callback(CounterPayload(an, PhaseOf(f)), ret, an, "elapsed")
     ELSE NoCallback
  /\ pc' = IF f = 1 THEN PcStart(2) ELSE "query"
  /\ UNCHANGED <<disk, catalog, hashOrder, locked, apiVars, opVars, an, result>>

\* sync.py:468-552: the queries and the grouping
QueryAndGroup ==
  /\ pc = "query"
  /\ an' = Grouped(an, catalog)
  /\ pc' = "compare"
  /\ UNCHANGED <<disk, catalog, hashOrder, locked, apiVars, opVars, PROGRESS_STORE,
                 lastUpdate, lastEmit, cancelAt, result>>

\* sync.py:554-761: one name compared, its emit under force=True, made
\* whether or not a second has passed since the last emit (due)
CompareName(due, ret) ==
  /\ pc = "compare"
  /\ an.compared_count < Len(an.names_all)
  /\ LET a == CompareOne(an, hashOrder)
     IN /\ an' = a
        /\ Callback(ComparePayload(a), ret, a,
                    IF due THEN "elapsed" ELSE "forced")
  /\ UNCHANGED <<disk, catalog, hashOrder, locked, apiVars, opVars, pc, result>>

\* sync.py:763-828: suspected duplicates, the final emit, the return
Finish(ret) ==
  /\ pc = "compare"
  /\ an.compared_count = Len(an.names_all)
  /\ Callback(FinalPayload(an, hashOrder), ret, an, "transition")
  /\ result' = ResultOf(an, hashOrder)
  /\ pc' = "returned"
  /\ UNCHANGED <<disk, catalog, hashOrder, locked, apiVars, opVars, an>>

\* main.py:1163-1232: the job is marked completed and the response built
AnalyzeSyncComplete ==
  /\ pc = "returned"
  /\ PROGRESS_STORE' = [PROGRESS_STORE EXCEPT !.exists = TRUE,
                                              !.phase = "completed"]
  /\ response' = AnalysisResponse(disk, result)
  /\ pc' = "completed"
  /\ UNCHANGED <<disk, catalog, hashOrder, locked, otherEntries, polled,
                 poolVars, opVars, an, lastUpdate, lastEmit, cancelAt, result>>

\* The job as main.py runs it: its progress_callback returns None. The
\* emits of the compare loop go out under force=True whatever the clock
\* says, so the clock is not drawn for them here (NextCancel draws it).
Next ==
  \/ AnalyzeSyncStart
  \/ EmitStarting(FALSE)
  \/ \E f \in Folders : ScanStart(f, FALSE)
  \/ \E f \in Folders, due \in BOOLEAN : IndexFile(f, due, FALSE)
  \/ \E f \in Folders, due \in BOOLEAN : ScanDone(f, due, FALSE)
  \/ QueryAndGroup
  \/ CompareName(FALSE, FALSE)
  \/ Finish(FALSE)
  \/ AnalyzeSyncComplete

Spec == Init /\ [][Next]_vars

\* ------------------------------------------------- the executor alone
MaxSyncFiles == 2

SyncFile(h, m, c) ==
  [exists |-> TRUE, md5 |-> h, size |-> h, mtime |-> m, ctime |-> c]

SyncDisks ==
  DisksOf({SyncFile(h, m, c) :
             h \in Hashes, m \in 1..MaxTime, c \in 1..MaxTime}, MaxSyncFiles)

InitSync ==
  /\ disk \in SyncDisks
  /\ catalog = {}
  /\ locked = {}
  /\ otherEntries = NoOthers
  /\ InitCommon

\* sync.py:833-1035, main.py:2062-2076: one call of sync_folders with the
\* default target folders; strategy is any string the request carries.
SyncFolders(strategy, dry_run, fault) ==
  /\ ~syncOut.called
  /\ LET cat == ScanBoth(catalog, disk)
         analysis == AnalyzeFolderSync(catalog, disk, hashOrder)
         st == IF dry_run THEN DryRun(disk, cat, analysis, strategy)
               ELSE Execute(disk, cat, analysis, strategy, fault)
     IN /\ fault.at <= (IF dry_run THEN 0 ELSE st.out.n)
        /\ disk' = st.disk
        /\ catalog' = st.catalog
        /\ syncOut' = st.out
  /\ UNCHANGED <<hashOrder, locked, apiVars, elimOut, copyVars, jobVars>>

Faults ==
  {NoFault} \cup [kind : {"corrupt", "error"}, at : 1..MaxSyncFiles]

NextSync ==
  \E strategy \in Strategies \cup {"mirror"}, dry_run \in BOOLEAN,
     fault \in Faults : SyncFolders(strategy, dry_run, fault)

SpecSync == InitSync /\ [][NextSync]_vars

\* ------------------------- the executor over larger trees, no faults
MaxPlainFiles == 3

\* nothing was indexed yet, or both trees were
InitSyncPlain ==
  /\ disk \in DisksOf({PlainFile(h) : h \in Hashes}, MaxPlainFiles)
  /\ catalog \in {{}, ScanBoth({}, disk)}
  /\ locked = {}
  /\ otherEntries = NoOthers
  /\ InitCommon

\* sync.py:168-263: one call of sync_drives with the default target
\* directories
SyncDrives(dry_run) ==
  /\ ~syncOut.called
  /\ LET analysis == AnalyzeDriveSync(catalog)
         st == IF dry_run THEN DryRun(disk, catalog, analysis, "")
               ELSE ExecuteDrives(disk, catalog, analysis, NoFault)
     IN /\ disk' = st.disk
        /\ catalog' = st.catalog
        /\ syncOut' = [st.out EXCEPT !.op = "sync_drives"]
  /\ UNCHANGED <<hashOrder, locked, apiVars, elimOut, copyVars, jobVars>>

NextSyncPlain ==
  \/ \E strategy \in Strategies \cup {"mirror"}, dry_run \in BOOLEAN :
       SyncFolders(strategy, dry_run, NoFault)
  \/ \E dry_run \in BOOLEAN : SyncDrives(dry_run)

SpecSyncPlain == InitSyncPlain /\ [][NextSyncPlain]_vars

\* ------------- the executor over one name in three versions, no faults
MaxWideFiles == 3
MaxWideNames == 1

WidePaths == {p \in Paths : p.name <= MaxWideNames}

WideDisks ==
  {d \in DisksOf({PlainFile(h) : h \in AllHashes}, MaxWideFiles) :
     FilesOn(d) \subseteq WidePaths}

InitSyncWide ==
  /\ disk \in WideDisks
  /\ catalog = {}
  /\ locked = {}
  /\ otherEntries = NoOthers
  /\ syncOut = NoSync /\ elimOut = NoElim /\ cp = NoCopy /\ wk = NoWork
  /\ PROGRESS_STORE = NoEntry /\ pc = "idle" /\ an = InitLocals
  /\ hashOrder \in Perms(AllHashes)
  /\ lastUpdate = NoUpdate /\ lastEmit = NoEmit
  /\ polled = NoPoll /\ response = NoResponse
  /\ jobs = NoJobs /\ ANALYSIS_EXECUTOR = IdleExecutor
  /\ cancelAt = NoCancel /\ result = NoResult

NextSyncWide ==
  \E strategy \in Strategies, dry_run \in BOOLEAN :
     SyncFolders(strategy, dry_run, NoFault)

SpecSyncWide == InitSyncWide /\ [][NextSyncWide]_vars

\* ------- the executor over trees an earlier keep_both call has written to
MaxAgainFiles == 2

\* sync.py:944, 950: the files an earlier keep_both call left in the two
\* roots, "<name>.folder2" in folder1 and "<name>.folder1" in folder2, each
\* holding the version the other side had at that time
LeftoverPaths ==
  {RootTarget(f, Suffixed(n, 3 - f)) : f \in Folders, n \in 1..MaxWideNames}

AgainDisks ==
  {[p \in AllPaths |-> IF p \in L THEN left[p] ELSE d[p]] :
     d \in {x \in DisksOf({PlainFile(h) : h \in Hashes}, MaxAgainFiles) :
              FilesOn(x) \subseteq WidePaths},
     L \in SUBSET LeftoverPaths,
     left \in [LeftoverPaths -> {PlainFile(h) : h \in Hashes}]}

InitSyncAgain ==
  /\ disk \in AgainDisks
  /\ catalog = {}
  /\ locked = {}
  /\ otherEntries = NoOthers
  /\ InitCommon

NextSyncAgain ==
  \E strategy \in Strategies, dry_run \in BOOLEAN :
     SyncFolders(strategy, dry_run, NoFault)

SpecSyncAgain == InitSyncAgain /\ [][NextSyncAgain]_vars

\* ------------------------------------------------ the eliminator alone
MaxElimFiles == 3
MaxElimNames == 1
MaxElimTime == 3
MaxLocked == 1

ElimPaths == {p \in Paths : p.name <= MaxElimNames}

\* a file of a conflict group: the two trees hold different content
ElimFile(p, m) ==
  [exists |-> TRUE, md5 |-> ((p.folder - 1) % MaxHashes) + 1,
   size |-> p.folder, mtime |-> m, ctime |-> 1]

ElimDisks ==
  UNION {{[p \in AllPaths |-> IF p \in S THEN ElimFile(p, e[p]) ELSE NoFile] :
            e \in [S -> 1..MaxElimTime]} :
         S \in {T \in SUBSET ElimPaths : Cardinality(T) <= MaxElimFiles}}

\* The trees were analysed; files may have been removed since.
InitElim ==
  /\ disk \in ElimDisks
  /\ catalog \in {AddGhosts(ScanBoth({}, disk), g) :
                    g \in {h \in GhostSets(disk) : \A x \in h : x.path \in ElimPaths}}
  /\ locked \in {L \in SUBSET FilesOn(disk) : Cardinality(L) <= MaxLocked}
  /\ otherEntries = NoOthers
  /\ InitCommon

\* the documents of side f a request may list for basename n, in the
\* order of the analysis (walk order)
SideChoices(dsk, cat, f, n, withModified) ==
  {LET In(p) == p \in S
       w == SelectSeq(WalkOrder(f), In)
   IN [i \in 1..Len(w) |-> RequestDoc(dsk, cat, w[i], withModified)] :
   S \in SUBSET {p \in ElimPaths :
                   /\ p.folder = f /\ p.name = n
                   /\ (dsk[p].exists \/ \E d \in cat : d.path = p)}}

\* the requests of one group the page can send for the current trees
Requests(dsk, cat) ==
  UNION {{<<[relative_path |-> n, folder1_docs |-> d1, folder2_docs |-> d2]>> :
            d1 \in UNION {SideChoices(dsk, cat, 1, n, m) : m \in BOOLEAN},
            d2 \in UNION {SideChoices(dsk, cat, 2, n, m) : m \in BOOLEAN}} :
         n \in 1..MaxElimNames}

\* main.py:1788-2051: POST /api/sync/eliminate-duplicates
EliminateDuplicates(request) ==
  /\ ~elimOut.called
  /\ LET st == Eliminate(disk, catalog, locked, request)
     IN /\ disk' = st.disk
        /\ catalog' = st.catalog
        /\ elimOut' = st.out
  /\ UNCHANGED <<hashOrder, locked, apiVars, syncOut, copyVars, jobVars>>

NextElim ==
  \E request \in Requests(disk, catalog) : EliminateDuplicates(request)

SpecElim == InitElim /\ [][NextElim]_vars

\* ------------------------------------ the eliminator of one side alone
MaxFolderFiles == 3
MaxFolderTime == 2

FolderDisks ==
  UNION {{[p \in AllPaths |-> IF p \in S THEN ElimFile(p, e[p]) ELSE NoFile] :
            e \in [S -> 1..MaxFolderTime]} :
         S \in {T \in SUBSET ElimPaths : Cardinality(T) <= MaxFolderFiles}}

InitElimFolder ==
  /\ disk \in FolderDisks
  /\ catalog \in {AddGhosts(ScanBoth({}, disk), g) :
                    g \in {h \in GhostSets(disk) : \A x \in h : x.path \in ElimPaths}}
  /\ locked \in {L \in SUBSET FilesOn(disk) : Cardinality(L) <= MaxLocked}
  /\ otherEntries = NoOthers
  /\ InitCommon

\* a document as a client sends it that took nothing from the response but
\* the path
BareDoc(p) ==
  [file_path |-> p, id |-> 0, date_modified |-> NoDate,
   date_created |-> NoDate, size |-> 0]

\* the requests of one group listing paths only
BareRequests ==
  UNION {{<<[relative_path |-> n,
             folder1_docs |-> [i \in 1..Len(w1) |-> BareDoc(w1[i])],
             folder2_docs |-> [i \in 1..Len(w2) |-> BareDoc(w2[i])]]>> :
            w1 \in {SelectSeq(WalkOrder(1), LAMBDA p : p \in S) :
                      S \in SUBSET {p \in ElimPaths : p.name = n}},
            w2 \in {SelectSeq(WalkOrder(2), LAMBDA p : p \in S) :
                      S \in SUBSET {p \in ElimPaths : p.name = n}}} :
         n \in 1..MaxElimNames}

\* main.py:1480-1783: POST /api/sync/eliminate-duplicates-folder
EliminateDuplicatesFolder(request, target_folder, db_fails) ==
  /\ ~elimOut.called
  /\ LET st == EliminateFolder(disk, catalog, locked, request, target_folder,
                               db_fails)
     IN /\ disk' = st.disk
        /\ catalog' = st.catalog
        /\ elimOut' = st.out
  /\ UNCHANGED <<hashOrder, locked, apiVars, syncOut, copyVars, jobVars>>

NextElimFolder ==
  \E request \in Requests(disk, catalog) \cup BareRequests,
     target_folder \in Folders, db_fails \in BOOLEAN :
     EliminateDuplicatesFolder(request, target_folder, db_fails)

SpecElimFolder == InitElimFolder /\ [][NextElimFolder]_vars

\* --------------------------- analyze_sync requests on the thread pool
\* main.py:1119-1162: analyze_sync initialises the entry of its job and
\* submits analyze_folder_sync to the executor
SubmitJob(r) ==
  /\ jobs[r] = "none"
  /\ otherEntries' = [i \in DOMAIN otherEntries \cup {JobIdOf(r)} |->
                        IF i = JobIdOf(r) THEN StartingEntry ELSE otherEntries[i]]
  /\ ANALYSIS_EXECUTOR' = [ANALYSIS_EXECUTOR EXCEPT !.queue = Append(@, r)]
  /\ jobs' = [jobs EXCEPT ![r] = "queued"]
  /\ UNCHANGED <<disk, catalog, hashOrder, locked, polled, response, opVars,
                 jobVars>>

\* ThreadPoolExecutor: a free worker takes the first item of the queue
StartJob ==
  /\ ANALYSIS_EXECUTOR.queue # <<>>
  /\ WorkerFree(ANALYSIS_EXECUTOR)
  /\ LET r == Head(ANALYSIS_EXECUTOR.queue)
     IN /\ ANALYSIS_EXECUTOR' =
             [queue |-> Tail(ANALYSIS_EXECUTOR.queue),
              running |-> ANALYSIS_EXECUTOR.running \cup {r}]
        /\ jobs' = [jobs EXCEPT ![r] = "running"]
  /\ UNCHANGED <<disk, catalog, hashOrder, locked, otherEntries, polled,
                 response, opVars, jobVars>>

\* main.py:1133-1152: the analysis of request r calls progress_callback
JobCallback(r, update) ==
  /\ jobs[r] = "running"
  /\ otherEntries' =
       [i \in DOMAIN otherEntries \cup {JobIdOf(r)} |->
          IF i = JobIdOf(r)
          THEN ProgressCallback(Get(otherEntries, JobIdOf(r)), update)
          ELSE otherEntries[i]]
  /\ UNCHANGED <<disk, catalog, hashOrder, locked, polled, response, poolVars,
                 opVars, jobVars>>

\* main.py:1156-1162: analyze_folder_sync returns (raised: or raises); the
\* worker is free again and the awaiting handler is woken
JobEnds(r, raised) ==
  /\ jobs[r] = "running"
  /\ ANALYSIS_EXECUTOR' = [ANALYSIS_EXECUTOR EXCEPT !.running = @ \ {r}]
  /\ jobs' = [jobs EXCEPT ![r] = IF raised THEN "raised" ELSE "returned"]
  /\ UNCHANGED <<disk, catalog, hashOrder, locked, otherEntries, polled,
                 response, opVars, jobVars>>

\* main.py:1164-1169, 1234-1247: the handler marks the job completed, or
\* error in its except clause
MarkJob(r) ==
  /\ jobs[r] \in {"returned", "raised"}
  /\ LET phase == IF jobs[r] = "returned" THEN "completed" ELSE "error"
     IN /\ otherEntries' =
             [i \in DOMAIN otherEntries \cup {JobIdOf(r)} |->
                IF i = JobIdOf(r)
                THEN [Get(otherEntries, JobIdOf(r)) EXCEPT
                        !.exists = TRUE, !.phase = phase]
                ELSE otherEntries[i]]
        /\ jobs' = [jobs EXCEPT ![r] = phase]
  /\ UNCHANGED <<disk, catalog, hashOrder, locked, polled, response,
                 ANALYSIS_EXECUTOR, opVars, jobVars>>

InitJobs ==
  /\ disk = [p \in AllPaths |-> NoFile]
  /\ catalog = {}
  /\ locked = {}
  /\ otherEntries = NoOthers
  /\ InitCommon

NextJobs ==
  \/ \E r \in Reqs : SubmitJob(r)
  \/ StartJob
  \/ \E r \in Reqs, update \in JobUpdates : JobCallback(r, update)
  \/ \E r \in Reqs, raised \in BOOLEAN : JobEnds(r, raised)
  \/ \E r \in Reqs : MarkJob(r)

SpecJobs == InitJobs /\ [][NextJobs]_vars

\* ------------------------------- copy_file beside a running analysis
MaxCopyFiles == 2
MaxCopyNames == 1

CopyPaths == {p \in Paths : p.name <= MaxCopyNames}

CopyDisks ==
  {d \in DisksOf({PlainFile(h) : h \in Hashes}, MaxCopyFiles) :
     FilesOn(d) \subseteq CopyPaths}

\* The trees were indexed; files may have been removed, or locked, since.
InitCopy ==
  /\ disk \in CopyDisks
  /\ catalog \in {AddGhosts(ScanBoth({}, disk), g) :
                    g \in {h \in GhostSets(disk) : \A x \in h : x.path \in CopyPaths}}
  /\ locked \in {L \in SUBSET FilesOn(disk) : Cardinality(L) <= MaxLocked}
  /\ otherEntries = NoOthers
  /\ InitCommon

\* the target paths the page asks for: the file's name in the other tree
CopyTargets(src) ==
  {p \in CopyPaths : p.folder # src.folder /\ p.name = src.name}

\* main.py:1282-1355: POST /api/sync/copy-file up to the copy: the source
\* row and file are looked up; a target with the source's hash is skipped,
\* any other target is removed.
CopyFileStart(id, target) ==
  /\ cp.pc = "idle"
  /\ LET rows == {d \in catalog : d.id = id}
         row == CHOOSE d \in rows : TRUE
         c == [cp EXCEPT !.source = row, !.target = target,
                         !.before = disk[target]]
     IN IF rows = {}
        THEN /\ target = NoRow.path
             /\ cp' = CopyFailed(cp, "source_document_not_found")
             /\ UNCHANGED disk
        ELSE /\ target \in CopyTargets(row.path)
             /\ IF ~disk[row.path].exists
                THEN cp' = CopyFailed(c, "source_file_not_found") /\ UNCHANGED disk
                ELSE IF ~disk[target].exists
                THEN cp' = [c EXCEPT !.pc = "copy"] /\ UNCHANGED disk
                ELSE IF disk[target].md5 = row.md5
                THEN cp' = [c EXCEPT !.pc = "index", !.skipped = TRUE]
                     /\ UNCHANGED disk
                ELSE IF target \in locked
                THEN cp' = CopyFailed(c, "target_locked") /\ UNCHANGED disk
                ELSE /\ cp' = [c EXCEPT !.pc = "copy"]
                     /\ disk' = [disk EXCEPT ![target] = NoFile]
  /\ UNCHANGED <<catalog, hashOrder, locked, apiVars, wk, syncOut, elimOut, jobVars>>

\* main.py:1357-1369: shutil.copy2 opens the target, or raises
CopyOpen(raises) ==
  /\ cp.pc = "copy"
  /\ IF raises \/ ~disk[cp.source.path].exists
     THEN cp' = CopyFailed(cp, "copy_error") /\ UNCHANGED disk
     ELSE /\ cp' = [cp EXCEPT !.pc = "close", !.writes = @ + 1]
          /\ disk' = [disk EXCEPT ![cp.target] = PartialFile]
  /\ UNCHANGED <<catalog, hashOrder, locked, apiVars, wk, syncOut, elimOut, jobVars>>

\* main.py:1359: shutil.copy2 has written the content and the timestamps
CopyClose(outcome) ==
  /\ cp.pc = "close"
  /\ disk' = Copy2([disk |-> disk], cp.source.path, cp.target, outcome).disk
  /\ cp' = [cp EXCEPT !.pc = "verify"]
  /\ UNCHANGED <<catalog, hashOrder, locked, apiVars, wk, syncOut, elimOut, jobVars>>

\* main.py:1371-1377: the target is hashed again and compared
CopyVerify ==
  /\ cp.pc = "verify"
  /\ cp' = IF disk[cp.target].md5 # cp.source.md5
           THEN CopyFailed([cp EXCEPT !.new_hash = disk[cp.target].md5],
                           "md5_mismatch")
           ELSE [cp EXCEPT !.pc = "index", !.new_hash = disk[cp.target].md5]
  /\ UNCHANGED <<disk, catalog, hashOrder, locked, apiVars, wk, syncOut, elimOut, jobVars>>

\* sync.py:285-289, file_scanner.py:128-137: _index_copied_file calls
\* index_document, which reads the file's metadata and hashes it
CopyIndexRead ==
  /\ cp.pc = "index"
  /\ cp' = [cp EXCEPT !.pc = "upsert", !.read = disk[cp.target]]
  /\ UNCHANGED <<disk, catalog, hashOrder, locked, apiVars, wk, syncOut, elimOut, jobVars>>

\* file_scanner.py:128-187: index_document returns None for a file that
\* was not there, else cleans the directory's rows and looks up the path
CopyIndexQuery ==
  /\ cp.pc = "upsert"
  /\ LET q == IndexQuery(catalog, disk, cp.target)
     IN IF cp.read.exists
        THEN /\ catalog' = q.catalog
             /\ cp' = [cp EXCEPT !.pc = "commit", !.existing = q.existing]
        ELSE /\ catalog' = catalog
             /\ cp' = [cp EXCEPT !.pc = "commit", !.indexed = "none"]
  /\ UNCHANGED <<disk, hashOrder, locked, apiVars, wk, syncOut, elimOut, jobVars>>

\* file_scanner.py:189-249, main.py:1386-1405: index_document writes the
\* row; a copy made is logged; the request returns success
CopyIndexWrite ==
  /\ cp.pc = "commit"
  /\ LET c == IndexCommit(catalog, cp.target, cp.read, cp.existing)
         done == [cp EXCEPT !.pc = "done", !.success = TRUE,
                    !.log = IF cp.skipped THEN @ ELSE Append(@, cp.target)]
     IN IF cp.indexed = "none"
        THEN catalog' = catalog /\ cp' = done
        ELSE catalog' = c.catalog /\ cp' = [done EXCEPT !.indexed = c.returned]
  /\ UNCHANGED <<disk, hashOrder, locked, apiVars, wk, syncOut, elimOut, jobVars>>

\* sync.py:414, file_scanner.py:128-137: the analysis job on the worker
\* thread calls index_document(p), which reads and hashes the file
WorkerRead(p) ==
  /\ wk.pc = "idle"
  /\ disk[p].exists
  /\ wk' = [wk EXCEPT !.pc = "hashed", !.path = p, !.read = disk[p]]
  /\ UNCHANGED <<disk, catalog, hashOrder, locked, apiVars, cp, syncOut, elimOut, jobVars>>

\* file_scanner.py:139-187: cleans the directory's rows and looks up the
\* path
WorkerQuery ==
  /\ wk.pc = "hashed"
  /\ LET q == IndexQuery(catalog, disk, wk.path)
     IN /\ catalog' = q.catalog
        /\ wk' = [wk EXCEPT !.pc = "queried", !.existing = q.existing]
  /\ UNCHANGED <<disk, hashOrder, locked, apiVars, cp, syncOut, elimOut, jobVars>>

\* file_scanner.py:189-249: and writes the row
WorkerWrite ==
  /\ wk.pc = "queried"
  /\ LET c == IndexCommit(catalog, wk.path, wk.read, wk.existing)
     IN /\ catalog' = c.catalog
        /\ wk' = [wk EXCEPT !.pc = "done", !.indexed = c.returned]
  /\ UNCHANGED <<disk, hashOrder, locked, apiVars, cp, syncOut, elimOut, jobVars>>

NextCopy ==
  \/ \E id \in {d.id : d \in catalog} \cup {NextId(catalog)},
        target \in CopyPaths : CopyFileStart(id, target)
  \/ \E raises \in BOOLEAN : CopyOpen(raises)
  \/ \E outcome \in {"none", "corrupt"} : CopyClose(outcome)
  \/ CopyVerify
  \/ CopyIndexRead
  \/ CopyIndexQuery
  \/ CopyIndexWrite
  \/ \E p \in CopyPaths : WorkerRead(p)
  \/ WorkerQuery
  \/ WorkerWrite

SpecCopy == InitCopy /\ [][NextCopy]_vars

\* The engine driven by a caller whose callback may ask to cancel.
MaxCancelFiles == 2

InitCancel ==
  /\ disk \in {d \in Disks : Cardinality(FilesOn(d)) <= MaxCancelFiles}
  /\ catalog = {}
  /\ locked = {}
  /\ otherEntries = NoOthers
  /\ InitCommon

NextCancel ==
  \/ AnalyzeSyncStart
  \/ \E ret \in BOOLEAN : EmitStarting(ret)
  \/ \E f \in Folders, ret \in BOOLEAN : ScanStart(f, ret)
  \/ \E f \in Folders, due \in BOOLEAN, ret \in BOOLEAN : IndexFile(f, due, ret)
  \/ \E f \in Folders, due \in BOOLEAN, ret \in BOOLEAN : ScanDone(f, due, ret)
  \/ QueryAndGroup
  \/ \E due \in BOOLEAN, ret \in BOOLEAN : CompareName(due, ret)
  \/ \E ret \in BOOLEAN : Finish(ret)
  \/ AnalyzeSyncComplete

SpecCancel == InitCancel /\ [][NextCancel]_vars

\* ------------------------------- the response to a large analysis
MaxMissing == 105

\* a catalog row of the n-th file unique to folder f, all in the root;
\* no content occurs in both trees
MissingDoc(f, n) ==
  [id |-> n, path |-> [folder |-> f, dir |-> 1, name |-> n],
   md5 |-> f, size |-> 1, created |-> 1]

\* sync.py:813-828: what analyze_folder_sync returns for trees with n1
\* files only in folder2 and n2 files only in folder1
LargeResult(n1, n2) ==
  [NoResult EXCEPT
     !.returned = TRUE,
     !.missing_in_folder1 = [i \in 1..n1 |-> MissingDoc(2, i)],
     !.missing_in_folder2 = [i \in 1..n2 |-> MissingDoc(1, i)],
     !.missing_count_folder1 = n1, !.missing_count_folder2 = n2,
     !.space_needed_folder1 = n1, !.space_needed_folder2 = n2]

\* analyze_folder_sync has returned; analyze_sync is about to respond
InitResponse ==
  /\ disk = [p \in Paths |-> NoFile]
  /\ catalog = {}
  /\ locked = {}
  /\ otherEntries = NoOthers
  /\ syncOut = NoSync /\ elimOut = NoElim /\ cp = NoCopy /\ wk = NoWork
  /\ polled = NoPoll /\ response = NoResponse
  /\ jobs = NoJobs /\ ANALYSIS_EXECUTOR = IdleExecutor
  /\ hashOrder \in Perms(Hashes)
  /\ an = InitLocals
  /\ lastEmit = NoEmit /\ cancelAt = NoCancel
  /\ \E n1 \in 0..MaxMissing, n2 \in 0..MaxMissing :
       /\ result = LargeResult(n1, n2)
       /\ lastUpdate = [sent |-> TRUE, counters |-> TRUE, phase |-> "compare",
                        scanned |-> n1 + n2, equals |-> 0,
                        needs_sync |-> n1 + n2]
       /\ PROGRESS_STORE = ProgressCallback(StartingEntry, lastUpdate)
  /\ pc = "returned"

NextResponse == AnalyzeSyncComplete

SpecResponse == InitResponse /\ [][NextResponse]_vars

\* ------------------------------- get_sync_progress beside a running job
MaxPollFiles == 2

\* the ids a page may ask about: the running job's, an earlier job's, and
\* one no job was ever started under
JobIds == {"job", "old", "unknown"}

\* main.py:1165-1169: the entry an earlier job left when it completed
OldEntries ==
  {[exists |-> TRUE, scanned |-> e, equals |-> e, needs_sync |-> 0,
    phase |-> "completed"] : e \in 0..1}

InitPoll ==
  /\ disk \in {d \in Disks : Cardinality(FilesOn(d)) <= MaxPollFiles}
  /\ catalog = {}
  /\ locked = {}
  /\ otherEntries \in {NoOthers} \cup {[i \in {"old"} |-> e] : e \in OldEntries}
  /\ InitCommon

\* main.py:645-669: get_sync_progress
GetSyncProgress(job_id) ==
  LET stored_data == Get(StoreOf(PROGRESS_STORE, otherEntries), job_id)
  IN  /\ polled' = [called |-> TRUE, job_id |-> job_id,
                    data |-> IF stored_data.exists THEN stored_data
                             ELSE IdleSnapshot]
      /\ UNCHANGED <<disk, catalog, hashOrder, locked, otherEntries, response,
                     poolVars,
                     opVars, jobVars>>

NextPoll ==
  \/ Next
  \/ \E job_id \in JobIds : GetSyncProgress(job_id)

SpecPoll == InitPoll /\ [][NextPoll]_vars

\* ================================================================ claims
Count(s, T(_)) == Cardinality({i \in 1..Len(s) : T(s[i])})

\* The side-A (k = 1) or side-B (k = 2) list of a conflict group
GroupSide(e, k) == IF k = 1 THEN e.folder1_docs ELSE e.folder2_docs

SideDocs(k) == IF k = 1 THEN an.docs1 ELSE an.docs2

\* The list of records of side k with no same-named record on the other side
OnlyIn(k) ==
  IF k = 1 THEN result.missing_in_folder2 ELSE result.missing_in_folder1

\* How many exact-match pairs record d of side k is part of
TimesPaired(d, k) ==
  LET mp == MatchedPairs(WithName(an.docs1, d.path.name),
                         WithName(an.docs2, d.path.name), hashOrder)
      Is(x) == (IF k = 1 THEN x.folder1 ELSE x.folder2) = d
  IN Count(mp, Is)

TimesOnly(d, k) ==
  LET Is(x) == x = d IN Count(OnlyIn(k), Is)

TimesInGroups(d, k) ==
  LET Is(x) == x = d
  IN SumSeq([i \in 1..Len(result.duplicates) |->
               Count(GroupSide(result.duplicates[i], k), Is)])

\* C1 (as claimed): in a returned analysis every record of either side is in
\* exactly one of: an exact-match pair, the only-on-this-side list, this
\* side's list of a conflict group.
C1_PartitionCompleteness ==
  result.returned =>
    \A k \in Folders : \A d \in Range(SideDocs(k)) :
      TimesPaired(d, k) + TimesOnly(d, k) + TimesInGroups(d, k) = 1

\* number of records of side k named n with content h
CountOf(k, n, h) ==
  Len(WithMd5(WithName(SideDocs(k), n), h))

BothSides == {n \in Names : \A k \in Folders : WithName(SideDocs(k), n) # <<>>}

Leftover(k, n, h) ==
  CountOf(k, n, h) - Min(CountOf(1, n, h), CountOf(2, n, h))

GroupsOf(n) ==
  {i \in 1..Len(result.duplicates) : result.duplicates[i].relative_path = n}

\* C2 (as claimed): the exact matches are, per name on both sides, the sum
\* over hashes of min(count_A, count_B), and what each side contributes to
\* the name's conflict group is exactly that side's leftovers.
C2_PairingMinimality ==
  result.returned =>
    /\ result.exact_match_count =
         SumSeq([n \in 1..MaxNames |->
            IF n \in BothSides
            THEN SumSeq([h \in 1..MaxHashes |->
                           Min(CountOf(1, n, h), CountOf(2, n, h))])
            ELSE 0])
    /\ \A n \in BothSides : \A k \in Folders : \A h \in Hashes :
         LET Is(x) == x.md5 = h
         IN IF GroupsOf(n) = {}
            THEN Leftover(k, n, h) = 0
            ELSE \A i \in GroupsOf(n) :
                   Count(GroupSide(result.duplicates[i], k), Is)
                     = Leftover(k, n, h)

\* C3: every payload with counters handed to the callback, and the job's
\* PROGRESS_STORE entry at every moment, has scanned = equals + needs_sync.
C3_ProgressInvariant ==
  /\ lastUpdate.counters =>
       lastUpdate.scanned = lastUpdate.equals + lastUpdate.needs_sync
  /\ PROGRESS_STORE.exists =>
       PROGRESS_STORE.scanned = PROGRESS_STORE.equals + PROGRESS_STORE.needs_sync

C3_Witness ==
  /\ pc = "returned"
  /\ lastUpdate.counters
  /\ PROGRESS_STORE.equals > 0
  /\ PROGRESS_STORE.needs_sync > PROGRESS_STORE.equals
  /\ result.suspected_duplicates # <<>>

\* C4 (as claimed): within a job the scanned counter of the store entry, and
\* of the payloads handed to the callback, never decreases.
C4_ScannedMonotonic ==
  [][/\ (PROGRESS_STORE.exists /\ PROGRESS_STORE'.exists)
          => PROGRESS_STORE'.scanned >= PROGRESS_STORE.scanned
     /\ (lastUpdate.counters /\ lastUpdate'.counters)
          => lastUpdate'.scanned >= lastUpdate.scanned]_vars

\* C5 (as claimed): a second run on the unchanged trees and catalog returns
\* the same result, lists in the same order, whatever order the process
\* iterates its sets of hashes in.
C5_Deterministic ==
  result.returned =>
    \A o \in Perms(Hashes) : AnalyzeFolderSync(catalog, disk, o) = result

\* C9 (as claimed): once the callback has asked to cancel, the analysis
\* goes through no further file or name.
C9_StopsAtCheckpoint ==
  cancelAt.asked => Processed(an) = cancelAt.at

\* C10 (as claimed): once both folders are scanned, no catalog row under
\* them refers to a file that is gone, and the result lists none.
C10_NoGhostRecords ==
  pc \in {"query", "compare", "returned", "completed"} =>
    /\ \A d \in catalog : disk[d.path].exists
    /\ \A k \in Folders : \A d \in Range(SideDocs(k)) : disk[d.path].exists

\* C6 (as claimed): after a sync, every copy the executor made whose target
\* does not hold the hash of the record copied, conflict resolutions
\* included, is reported as an error and is not listed as copied.
C6_CopyVerified ==
  (syncOut.called /\ ~syncOut.dry_run) =>
    \A i \in 1..Len(syncOut.copies) :
      LET c == syncOut.copies[i]
      IN c.written # c.doc.md5 =>
           /\ \E j \in 1..Len(syncOut.errors) : syncOut.errors[j].path = c.target
           /\ c.target \notin Range(syncOut.copied[c.target.folder])

\* C7 (as claimed): a sync asked for under a strategy outside the four known
\* ones fails as an invalid strategy, having copied nothing, made no
\* directory and logged nothing.
C7_InvalidStrategy ==
  (syncOut.called /\ ~syncOut.dry_run /\ syncOut.strategy \notin Strategies) =>
    /\ syncOut.status = "invalid_strategy"
    /\ syncOut.copies = <<>>
    /\ syncOut.made_dirs = {}
    /\ syncOut.log = <<>>

\* the paths a group of the request names
GroupPaths(dup) == {AllFiles(dup)[i].file_path : i \in 1..Len(AllFiles(dup))}

C11_VerifiedRecordKept ==
  (cp.pc = "done" /\ cp.success) =>
    \A d \in catalog : d.path = cp.target => d.md5 = cp.source.md5

\* an entry of errors names path p
ErrorFor(p) ==
  \E j \in 1..Len(syncOut.errors) : syncOut.errors[j].path = p

\* a unique file planned for folder f was copied there or is in errors
UniqueAccounted(doc, f) ==
  \/ TargetOf(doc.path, f) \in Range(syncOut.copied[f])
  \/ ErrorFor(doc.path)
  \/ ErrorFor(TargetOf(doc.path, f))

\* a conflict group was resolved or is in errors
GroupAccounted(n) ==
  \/ \E j \in 1..Len(syncOut.resolved) : syncOut.resolved[j].relative_path = n
  \/ \E f \in Folders, k \in 0..2 : ErrorFor(RootTarget(f, Suffixed(n, k)))

\* C12 (as claimed): a sync under a known strategy returns "completed"
\* whatever copy failed, every planned item, those after a failed one
\* included, was processed (it is listed as copied or resolved, or is in
\* errors), and every copy that raised or left a target with another hash
\* than its source's has its entry in errors.
C12_FailureIsolation ==
  (syncOut.called /\ ~syncOut.dry_run /\ syncOut.strategy \in Strategies) =>
    /\ syncOut.status = "completed"
    /\ \A i \in 1..Len(syncOut.analysis.missing_in_folder1) :
         UniqueAccounted(syncOut.analysis.missing_in_folder1[i], 1)
    /\ \A i \in 1..Len(syncOut.analysis.missing_in_folder2) :
         UniqueAccounted(syncOut.analysis.missing_in_folder2[i], 2)
    /\ \A i \in 1..Len(syncOut.analysis.duplicates) :
         GroupAccounted(syncOut.analysis.duplicates[i].relative_path)
    /\ \A i \in 1..Len(syncOut.copies) :
         syncOut.copies[i].written # syncOut.copies[i].doc.md5 =>
           ErrorFor(syncOut.copies[i].target)

\* C12, the part the code keeps: the same with the hash mismatches of
\* conflict copies, which sync_folders never looks for, left aside
C12_IsolationOfReportedFailures ==
  (syncOut.called /\ ~syncOut.dry_run /\ syncOut.strategy \in Strategies) =>
    /\ syncOut.status = "completed"
    /\ \A i \in 1..Len(syncOut.analysis.missing_in_folder1) :
         UniqueAccounted(syncOut.analysis.missing_in_folder1[i], 1)
    /\ \A i \in 1..Len(syncOut.analysis.missing_in_folder2) :
         UniqueAccounted(syncOut.analysis.missing_in_folder2[i], 2)
    /\ \A i \in 1..Len(syncOut.analysis.duplicates) :
         GroupAccounted(syncOut.analysis.duplicates[i].relative_path)

\* C13 (as claimed): sync_folders makes no byte copy onto a target that
\* already holds the hash of the record to copy (the item is skipped).
C13_SkipWhenSynced ==
  [][(~syncOut.called /\ syncOut'.called) =>
       \A i \in 1..Len(syncOut'.copies) :
         LET c == syncOut'.copies[i]
         IN (\A j \in 1..(i - 1) : syncOut'.copies[j].target # c.target)
              => ~(disk[c.target].exists /\ disk[c.target].md5 = c.doc.md5)]_vars

\* C14: between two consecutive calls of the progress callback that are not
\* phase transitions, at least ProgressEvery items have been processed or
\* the minimum interval has elapsed, in the scan and the compare phases.
C14_Throttled ==
  [][(/\ lastEmit' # lastEmit
      /\ lastEmit.timing \in {"elapsed", "forced"}
      /\ lastEmit'.timing \in {"elapsed", "forced"})
       => \/ lastEmit'.at - lastEmit.at >= ProgressEvery
          \/ lastEmit'.timing = "elapsed"]_vars


\* C15: get_sync_progress for a job id without an entry in PROGRESS_STORE
\* returns the idle snapshot (scanned 0, equals 0, needs_sync 0, phase
\* idle), creates no entry for that id and changes no existing entry.
C15_UnknownJobIdle ==
  [][(/\ polled' # polled
      /\ polled'.job_id \notin DOMAIN StoreOf(PROGRESS_STORE, otherEntries))
       => /\ polled'.data = IdleSnapshot
          /\ StoreOf(PROGRESS_STORE', otherEntries')
               = StoreOf(PROGRESS_STORE, otherEntries)]_vars

\* an unknown id was polled while the store held the running job's entry
\* and an earlier job's
C15_Witness ==
  /\ polled.called
  /\ polled.job_id \notin DOMAIN StoreOf(PROGRESS_STORE, otherEntries)
  /\ polled.data = IdleSnapshot
  /\ PROGRESS_STORE.exists
  /\ pc = "compare"
  /\ "old" \in DOMAIN otherEntries


\* C16: every file copy the executor performs appends exactly one record
\* to the activity log: as many log records name a target as copies were
\* made onto it, for unique-file copies and conflict copies alike.
C16_EveryCopyLogged ==
  syncOut.called =>
    \A i \in 1..Len(syncOut.copies) :
      LET t == syncOut.copies[i].target
      IN  Count(syncOut.log, LAMBDA x : x = t)
            = Count(syncOut.copies, LAMBDA c : c.target = t)


\* C17: the analysis response lists at most 100 entries in
\* missing_in_folder1 and at most 100 in missing_in_folder2, however many
\* files are unique to one side.
C17_ResponseLimited ==
  response.built =>
    /\ Len(response.missing_in_folder1) <= 100
    /\ Len(response.missing_in_folder2) <= 100


\* C18: sync_folders and sync_drives called with dry_run=True return
\* status "dry_run" with the analysis, copy no file, create no directory
\* and overwrite nothing in either tree, for every strategy value.
C18_DryRunCopiesNothing ==
  [][(~syncOut.called /\ syncOut'.called /\ syncOut'.dry_run)
       => /\ disk' = disk
          /\ syncOut'.status = "dry_run"
          /\ syncOut'.analysis.returned
          /\ syncOut'.copies = <<>>
          /\ syncOut'.made_dirs = {}
          /\ \A f \in Folders : syncOut'.copied[f] = <<>>]_vars

\* a dry run of sync_folders whose plan holds a unique file and a conflict
C18_Witness ==
  /\ syncOut.called /\ syncOut.dry_run /\ syncOut.op = "sync_folders"
  /\ syncOut.strategy = "keep_newest"
  /\ syncOut.analysis.missing_in_folder2 # <<>>
  /\ syncOut.analysis.duplicates # <<>>
  /\ \E d \in Range(syncOut.analysis.missing_in_folder2) :
        ~disk[TargetOf(d.path, 2)].exists


\* C19: with one file x of content H in tree A and one file y of the same
\* content in tree B (and no catalog row of a file that is gone), the
\* analysis returns x as the only file missing in B, y as the only file
\* missing in A, no conflict group, no exact match, and one suspected
\* rename: hash H, A names [x], B names [y], pair count 1.
C19_RenameScenario ==
  \A p1, p2 \in Paths :
    (/\ result.returned
     /\ FilesOn(disk) = {p1, p2}
     /\ p1.folder = 1 /\ p2.folder = 2
     /\ p1.name # p2.name
     /\ disk[p1].md5 = disk[p2].md5
     /\ \A d \in catalog : disk[d.path].exists)
    => /\ Len(result.missing_in_folder2) = 1
       /\ result.missing_in_folder2[1].path = p1
       /\ Len(result.missing_in_folder1) = 1
       /\ result.missing_in_folder1[1].path = p2
       /\ result.duplicates = <<>>
       /\ result.exact_match_count = 0
       /\ result.suspected_duplicates
            = <<[md5 |-> disk[p1].md5,
                 folder1_names |-> <<p1.name>>,
                 folder2_names |-> <<p2.name>>,
                 count_pairs |-> 1]>>

\* the analysis has returned for such a pair of trees
C19_Witness ==
  /\ result.returned
  /\ result.suspected_duplicates # <<>>
  /\ \E p1, p2 \in Paths :
       /\ FilesOn(disk) = {p1, p2}
       /\ p1.folder = 1 /\ p2.folder = 2
       /\ p1.name # p2.name
       /\ disk[p1].md5 = disk[p2].md5

\* C20: a content hash found on both sides, paired by same name for fewer
\* than min(count in A, count in B) of its occurrences, with an unpaired
\* occurrence on A named differently from an unpaired occurrence on B, gets
\* a suspected rename, also when it occurs under a shared name as well.
C20_SuspectedRenameRecorded ==
  (result.returned /\ \A d \in catalog : disk[d.path].exists) =>
    \A h \in Hashes :
      LET count1 == SumSeq([n \in 1..MaxNames |-> CountOf(1, n, h)])
          count2 == SumSeq([n \in 1..MaxNames |-> CountOf(2, n, h)])
          paired == SumSeq([n \in 1..MaxNames |->
                              Min(CountOf(1, n, h), CountOf(2, n, h))])
      IN (/\ paired < Min(count1, count2)
          /\ \E n1, n2 \in Names :
               n1 # n2 /\ Leftover(1, n1, h) > 0 /\ Leftover(2, n2, h) > 0)
         => \E e \in Range(result.suspected_duplicates) : e.md5 = h


\* C21: under keep_newest the copy of a conflict group is never made from
\* the record whose file was modified earlier than the other side's, also
\* when the creation times are ordered the other way round.
C21_NewestWins ==
  [][(/\ ~syncOut.called /\ syncOut'.called /\ ~syncOut'.dry_run
      /\ syncOut'.strategy = "keep_newest")
       => \A g \in 1..Len(syncOut'.analysis.duplicates) :
            LET dup == syncOut'.analysis.duplicates[g]
                Older(a, b) == disk[a.path].mtime < disk[b.path].mtime
            IN \A d1 \in Range(dup.folder1_docs), d2 \in Range(dup.folder2_docs) :
                 \A c \in Range(syncOut'.copies) :
                   c.target = RootTarget(c.target.folder, dup.relative_path)
                   => /\ ~(c.doc = d1 /\ c.target.folder = 2 /\ Older(d1, d2))
                      /\ ~(c.doc = d2 /\ c.target.folder = 1 /\ Older(d2, d1))]_vars


\* C22: under keep_largest the record copied for a conflict group is one
\* of the largest among all records of the group, on either side, also
\* when a side contributes several records.
C22_LargestWins ==
  [][(/\ ~syncOut.called /\ syncOut'.called /\ ~syncOut'.dry_run
      /\ syncOut'.strategy = "keep_largest")
       => \A g \in 1..Len(syncOut'.analysis.duplicates) :
            LET dup == syncOut'.analysis.duplicates[g]
                docs == Range(dup.folder1_docs) \cup Range(dup.folder2_docs)
            IN \A c \in Range(syncOut'.copies) :
                 (/\ c.target = RootTarget(c.target.folder, dup.relative_path)
                  /\ c.doc \in docs)
                 => \A d \in docs : d.size <= c.doc.size]_vars


\* C23: a sync_folders call under keep_both that is no dry run leaves every
\* file that stood in either tree before the call with the content it had.
C23_KeepBothPreserves ==
  [][(/\ syncOut'.called /\ syncOut' # syncOut /\ syncOut'.op = "sync_folders"
      /\ ~syncOut'.dry_run /\ syncOut'.strategy = "keep_both")
       => \A p \in AllPaths :
            disk[p].exists => disk'[p].exists /\ disk'[p].md5 = disk[p].md5]_vars


\* no file of the group has a date the eliminator can compare
NoUsableDate(dsk, dup) ==
  \A i \in 1..Len(AllFiles(dup)) : ~CompareDate(dsk, AllFiles(dup)[i]).has

\* C24: when no file of a submitted group has a usable timestamp, the
\* eliminator leaves the first file of the group (folder1's before
\* folder2's) as it is and the errors it returns carry the warning that the
\* latest file could not be determined.
C24_TieBreakWarned ==
  [][(~elimOut.called /\ elimOut'.called /\ elimOut'.success)
       => \A g \in 1..Len(elimOut'.request) :
            LET dup == elimOut'.request[g]
                files == AllFiles(dup)
            IN (Len(files) >= 2 /\ NoUsableDate(disk, dup))
               => /\ disk'[files[1].file_path] = disk[files[1].file_path]
                  /\ \E e \in Range(elimOut'.errors) :
                        e.kind = "no_date" /\ e.path = files[1].file_path]_vars


\* the paths the groups of a request list
RequestPaths(request) ==
  UNION {{AllFiles(request[g])[i].file_path :
            i \in 1..Len(AllFiles(request[g]))} : g \in 1..Len(request)}

\* C25: after an elimination batch has returned, the catalog holds no row
\* under the tree the batch worked on whose file is no longer on disk; here
\* for the rows of the files the batch listed.
C25_SweptAfterBatch ==
  (elimOut.called /\ elimOut.success)
    => \A d \in catalog :
         (/\ d.path \in RequestPaths(elimOut.request)
          /\ elimOut.op = "eliminate_duplicates_folder"
                => d.path.folder = elimOut.target_folder)
         => disk[d.path].exists


\* the paths a group lists on side f
ListedOn(dup, f) ==
  {AllFiles(dup)[i].file_path :
     i \in {j \in 1..Len(AllFiles(dup)) : SideOf(dup, j) = f}}

\* the file of a group the eliminator selects as the latest
LatestOf(dsk, dup) ==
  LET files == AllFiles(dup)
      li == LatestIndex(dsk, files, Len(files))
  IN IF li = 0 THEN files[1] ELSE files[li]

\* C26: eliminate_duplicates_folder with target_folder t changes the trees
\* only by deleting files the groups list on side t; a file listed on the
\* other side stays as it was, the file selected as latest of a group is
\* never deleted, and kept_count counts the groups whose latest file is
\* listed on side t.
C26_ScopedElimination ==
  [][(/\ ~elimOut.called /\ elimOut'.called /\ elimOut'.success
      /\ elimOut'.op = "eliminate_duplicates_folder")
       => LET t == elimOut'.target_folder
              req == elimOut'.request
              groups == {g \in 1..Len(req) : Len(AllFiles(req[g])) >= 2}
          IN /\ \A p \in AllPaths :
                  disk'[p] # disk[p]
                  => /\ ~disk'[p].exists
                     /\ \E g \in groups : p \in ListedOn(req[g], t)
             /\ \A g \in groups :
                  /\ \A p \in ListedOn(req[g], 3 - t) : disk'[p] = disk[p]
                  /\ disk'[LatestOf(disk, req[g]).file_path]
                       = disk[LatestOf(disk, req[g]).file_path]
             /\ elimOut'.kept_count =
                  Cardinality({g \in groups :
                     LatestOf(disk, req[g]).file_path \in ListedOn(req[g], t)})]_vars

\* a call that deleted a file of side t, kept the latest on side t and had
\* a file of the other side in the group
C26_Witness ==
  /\ elimOut.called /\ elimOut.success
  /\ elimOut.op = "eliminate_duplicates_folder"
  /\ elimOut.deleted_count = 1 /\ elimOut.kept_count = 1
  /\ \E g \in 1..Len(elimOut.request) :
       \E p \in ListedOn(elimOut.request[g], 3 - elimOut.target_folder) :
          disk[p].exists


\* C28: when copy_file has returned success false, a target file that
\* stood there when the request came in still exists with the content it
\* had.
C28_FailedCopyKeepsTarget ==
  (cp.pc = "done" /\ ~cp.success /\ cp.before.exists)
    => /\ disk[cp.target].exists
       /\ disk[cp.target].md5 = cp.before.md5


\* C27: however the index_document calls of the worker thread and of the
\* request thread interleave, the catalog never holds two rows with the
\* same file_path, and a call that found no row for its path and commits
\* after another call has inserted that path returns no record and adds
\* no row.
C27_PathsUnique ==
  [][/\ \A d1, d2 \in catalog' : d1.path = d2.path => d1 = d2
     /\ (/\ wk.pc = "queried" /\ wk'.pc = "done" /\ wk.existing = 0
         /\ \E d \in catalog : d.path = wk.path)
        => wk'.indexed = "none" /\ catalog' = catalog
     /\ (/\ cp.pc = "commit" /\ cp'.pc = "done" /\ cp.existing = 0
         /\ cp.indexed = ""
         /\ \E d \in catalog : d.path = cp.target)
        => cp'.indexed = "none" /\ catalog' = catalog]_vars

\* the worker lost the race for a path the copy inserted meanwhile
C27_Witness ==
  /\ wk.pc = "done" /\ wk.existing = 0 /\ wk.indexed = "none"
  /\ cp.pc = "done" /\ cp.indexed = "record" /\ cp.target = wk.path
  /\ Cardinality({d \in catalog : d.path = wk.path}) = 1


\* the stored entry of request r's job
EntryOf(store, r) == Get(store, JobIdOf(r))

\* C29: the entry of a job has phase "starting" when its analysis is
\* submitted; when the analysis has returned the handler sets the phase to
\* "completed", when it has raised to "error"; an entry whose phase is
\* "completed" or "error" is changed by no later step; and at most one
\* analysis is running on the executor at any time.
C29_JobLifecycle ==
  [][/\ \A r \in Reqs :
          /\ jobs'[r] = "queued" => EntryOf(otherEntries', r) = StartingEntry
          /\ (jobs[r] = "returned" /\ jobs'[r] # "returned")
               => EntryOf(otherEntries', r).phase = "completed"
          /\ (jobs[r] = "raised" /\ jobs'[r] # "raised")
               => EntryOf(otherEntries', r).phase = "error"
          /\ EntryOf(otherEntries, r).phase \in {"completed", "error"}
               => EntryOf(otherEntries', r) = EntryOf(otherEntries, r)
     /\ Cardinality(ANALYSIS_EXECUTOR'.running) <= 1
     /\ Cardinality({r \in Reqs : jobs'[r] = "running"}) <= 1]_vars

\* one job completed, one ended in error, and a third is running
C29_Witness ==
  \E r1, r2, r3 \in Reqs :
     /\ jobs[r1] = "completed" /\ EntryOf(otherEntries, r1).phase = "completed"
     /\ jobs[r2] = "error" /\ EntryOf(otherEntries, r2).phase = "error"
     /\ jobs[r3] = "running" /\ EntryOf(otherEntries, r3).phase = "compare"


====
